---- MODULE Spec2Model ----
(***************************************************************************)
(* Model of the analysis engine (src/src/modules/AnalysisEngine.ts) and of  *)
(* the automation manager (src/src/modules/AutomationManager.ts), both     *)
(* built by the constructor of AnalystAgent.                               *)
(*                                                                         *)
(* Numbers are exact rationals [n, d] (d > 0, lowest terms) or NaN; the    *)
(* IEEE rounding of the JavaScript doubles is not modelled.  A cell that   *)
(* holds a JavaScript number v is stored as the integer v * Unit.          *)
(* Math.sqrt is never evaluated: a quantity that the code obtains through  *)
(* a square root is carried as its square (see the sq flag of Conf).       *)
(*                                                                         *)
(* CHOOSE r \in {F(x) : x \in {e}} : TRUE is F(e) with e evaluated once:    *)
(* it is how a const of the source, computed once and read many times, is  *)
(* written here.                                                           *)
(***************************************************************************)
EXTENDS Integers, Sequences, FiniteSets, TLC

VARIABLES data, isArray, pc, insights, result, escaped, outerLog, innerLog,
          kmeansCalls, given, history,
          now, heap, rules, timers, creating, returnedIds, deleted, runs

engineVars == <<data, isArray, pc, insights, result, escaped, outerLog, innerLog,
                kmeansCalls, given, history>>

managerVars == <<now, heap, rules, timers, creating, returnedIds, deleted, runs>>

vars == <<engineVars, managerVars>>

(***************************************************************************)
(* Bounds of the model.                                                    *)
(***************************************************************************)
Unit == 10          \* a stored integer v stands for the number v / Unit
MaxRows == 5        \* longest fully enumerated dataset
MaxVal == 1         \* an enumerated numeric cell stores 0 or MaxVal
LongFree == 3       \* enumerated leading rows of a long dataset
MaxPad == 8         \* most filler rows appended to a long dataset
MaxOffset == 1      \* most points skipped before the initial centers of kmeans
MaxClock == 1        \* the clock of the automation manager reads 0..MaxClock
MaxRules == 2        \* most calls of createAutomationRule
MaxRuns == 2         \* most executions of a rule
MaxCalls == 3       \* most calls of generateInsights on one engine

(***************************************************************************)
(* Exact rational arithmetic.                                              *)
(***************************************************************************)
Abs(i) == IF i < 0 THEN -i ELSE i

RECURSIVE GCD(_, _)
GCD(a, b) ==
    IF b = 0 THEN a
    ELSE CHOOSE g \in {GCD(y, r) : y \in {b}, r \in {a % b}} : TRUE

NaN == [nan |-> TRUE, n |-> 0, d |-> 1]

Rat(num, den) ==
    IF den = 0 THEN NaN
    ELSE LET g == GCD(Abs(num), Abs(den))
             s == IF den < 0 THEN -1 ELSE 1
         IN [nan |-> FALSE, n |-> s * (num \div g), d |-> s * (den \div g)]

RInt(i) == [nan |-> FALSE, n |-> i, d |-> 1]

isNaN(a) == a.nan

\* the sum over the least common denominator, the product after cancelling
\* across, so that no intermediate value is larger than the result needs
RAdd(a, b) ==
    IF a.nan \/ b.nan THEN NaN
    ELSE LET g == GCD(a.d, b.d)
         IN Rat(a.n * (b.d \div g) + b.n * (a.d \div g), (a.d \div g) * b.d)
RNeg(a) == IF a.nan THEN NaN ELSE [nan |-> FALSE, n |-> -a.n, d |-> a.d]
RSub(a, b) == RAdd(a, RNeg(b))
MulValues(a, b) ==
    LET g1 == GCD(Abs(a.n), b.d)
        g2 == GCD(Abs(b.n), a.d)
    IN Rat((a.n \div g1) * (b.n \div g2), (a.d \div g2) * (b.d \div g1))
RMul(a, b) == IF a.nan \/ b.nan THEN NaN ELSE MulValues(a, b)
\* x / 0 is NaN for x = 0; a nonzero x over 0 (an infinity) cannot arise
\* from the divisions of this module, whose divisor is zero only with x = 0
RDiv(a, b) ==
    IF a.nan \/ b.nan \/ b.n = 0 THEN NaN
    ELSE MulValues(a, IF b.n < 0 THEN [nan |-> FALSE, n |-> -b.d, d |-> -b.n]
                      ELSE [nan |-> FALSE, n |-> b.d, d |-> b.n])
RAbs(a) == IF a.nan THEN NaN ELSE [nan |-> FALSE, n |-> Abs(a.n), d |-> a.d]
RSq(a) == RMul(a, a)

\* n1/d1 < n2/d2 for n1, n2 >= 0 and d1, d2 > 0, by continued fractions
\* (no product is formed, so the comparison cannot overflow)
RECURSIVE FracLess(_, _, _, _)
FracLess(n1, d1, n2, d2) ==
    LET a1 == n1 \div d1
        a2 == n2 \div d2
    IN IF a1 # a2 THEN a1 < a2
       ELSE IF n2 % d2 = 0 THEN FALSE
       ELSE IF n1 % d1 = 0 THEN TRUE
       ELSE \E p \in {d2}, q \in {n2 % d2}, u \in {d1}, v \in {n1 % d1} :
               FracLess(p, q, u, v)

\* a < b as IEEE does it: any comparison with NaN is false
RLess(a, b) ==
    IF a.nan \/ b.nan THEN FALSE
    ELSE IF a.n < 0 /\ b.n >= 0 THEN TRUE
    ELSE IF a.n >= 0 /\ b.n < 0 THEN FALSE
    ELSE IF a.n < 0 THEN FracLess(-b.n, b.d, -a.n, a.d)
    ELSE FracLess(a.n, a.d, b.n, b.d)
RGreater(a, b) == RLess(b, a)
REq(a, b) == ~a.nan /\ ~b.nan /\ a.n = b.n /\ a.d = b.d
RMin(a, b) == IF a.nan \/ b.nan THEN NaN ELSE IF RLess(b, a) THEN b ELSE a

\* s[1] + ... + s[k], added from the left as reduce does
RECURSIVE SumTo(_, _)
SumTo(s, k) == IF k = 0 THEN RInt(0) ELSE RAdd(SumTo(s, k - 1), s[k])

\* s.reduce((a, b) => a + b, 0)
RSum(s) == CHOOSE r \in {SumTo(v, Len(v)) : v \in {s}} : TRUE

(***************************************************************************)
(* Cell values.  A dataset is [keys, rows]: keys is Object.keys of the     *)
(* first record in schema order, rows the records.  A record is            *)
(* [isNull, val]; isNull stands for a null entry of the array (JSON null), *)
(* val maps each key to a cell.                                            *)
(*   num     a JavaScript number, v / Unit                                 *)
(*   date    a date string such as "Jan 5 2024" whose timestamp is v       *)
(*   text    a non-empty string that is neither a number nor a date        *)
(*   hostile an object whose toString() returns such a text and whose      *)
(*           valueOf() throws                                              *)
(***************************************************************************)
Num(v) == [k |-> "num", v |-> v]
DateStr(t) == [k |-> "date", v |-> t]
Text == [k |-> "text", v |-> 0]
Hostile == [k |-> "hostile", v |-> 0]

Row(f) == [isNull |-> FALSE, val |-> f]
NullRow == [isNull |-> TRUE, val |-> <<>>]

\* parseFloat(value): ToString, then the longest numeric prefix
parseFloat(value) == IF value.k = "num" THEN Rat(value.v, Unit) ELSE NaN

\* the global isFinite(value): ToNumber; evaluated only on cells for which
\* parseFloat is not NaN (&& short-circuits)
isFinite(value) == value.k = "num"

\* new Date(value).getTime(): [threw, t]; a number is truncated to whole
\* milliseconds, a date string parsed, any other string is an invalid date
\* (NaN); the conversion of a hostile object calls valueOf and throws
DateTime(value) ==
    CASE value.k = "num" -> [threw |-> FALSE, t |-> RInt(value.v \div Unit)]
      [] value.k = "date" -> [threw |-> FALSE, t |-> RInt(value.v)]
      [] value.k = "text" -> [threw |-> FALSE, t |-> NaN]
      [] OTHER -> [threw |-> TRUE, t |-> NaN]

\* the falsy cells: of the modelled values only the number 0
Falsy(value) == value.k = "num" /\ value.v = 0

\* isDateValue(value): [threw, ret]
isDateValue(value) ==
    IF Falsy(value) THEN [threw |-> FALSE, ret |-> FALSE]
    ELSE LET dt == DateTime(value)
         IN [threw |-> dt.threw, ret |-> ~dt.threw /\ ~isNaN(dt.t)]

\* the classification by the last record
getNumericColumnsOfLastRecord(ds) ==
    IF Len(ds.rows) = 0 THEN [threw |-> FALSE, cols |-> <<>>]
    ELSE IF ds.rows[Len(ds.rows)].isNull THEN [threw |-> TRUE, cols |-> <<>>]
    ELSE LET lastRow == ds.rows[Len(ds.rows)].val
             numeric(key) == ~isNaN(parseFloat(lastRow[key])) /\ isFinite(lastRow[key])
         IN [threw |-> FALSE, cols |-> SelectSeq(ds.keys, numeric)]

\* getNumericColumns(data): [threw, cols]; Object.keys(null) throws
getNumericColumns(ds) ==
    IF Len(ds.rows) = 0 THEN [threw |-> FALSE, cols |-> <<>>]
    ELSE IF ds.rows[1].isNull THEN [threw |-> TRUE, cols |-> <<>>]
    ELSE LET firstRow == ds.rows[1].val
             numeric(key) == ~isNaN(parseFloat(firstRow[key])) /\ isFinite(firstRow[key])
         IN [threw |-> FALSE, cols |-> SelectSeq(ds.keys, numeric)]

\* the for loop of getDateColumn, which stops at the first key whose cell
\* is a date or makes isDateValue throw: [threw, found, col]
FirstDateKey(keys, firstRow) ==
    LET stops == {i \in 1..Len(keys) :
                     isDateValue(firstRow[keys[i]]).threw \/ isDateValue(firstRow[keys[i]]).ret}
    IN IF stops = {} THEN [threw |-> FALSE, found |-> FALSE, col |-> ""]
       ELSE LET first == CHOOSE i \in stops : \A j \in stops : i <= j
            IN IF isDateValue(firstRow[keys[first]]).threw
               THEN [threw |-> TRUE, found |-> FALSE, col |-> ""]
               ELSE [threw |-> FALSE, found |-> TRUE, col |-> keys[first]]

\* getDateColumn(data): [threw, found, col]; found = FALSE is the null result
getDateColumn(ds) ==
    IF Len(ds.rows) = 0 THEN [threw |-> FALSE, found |-> FALSE, col |-> ""]
    ELSE IF ds.rows[1].isNull THEN [threw |-> TRUE, found |-> FALSE, col |-> ""]
    ELSE FirstDateKey(ds.keys, ds.rows[1].val)

(***************************************************************************)
(* Time series and the linear regression.                                  *)
(***************************************************************************)
\* Array.prototype.sort((a, b) => a.date - b.date), a stable ascending
\* sort: the element at position k goes after the elements with an earlier
\* date and after those before it that it does not precede
DateRank(pts, k) ==
    1 + Cardinality({j \in 1..Len(pts) :
                        \/ RLess(pts[j].date, pts[k].date)
                        \/ j < k /\ ~RLess(pts[k].date, pts[j].date)})

SortByDate(pts) ==
    [r \in 1..Len(pts) |-> pts[CHOOSE k \in 1..Len(pts) : DateRank(pts, k) = r]]

\* prepareTimeSeriesData(data, dateColumn, valueColumn): [threw, pts];
\* row[dateColumn] of a null record throws, and so does new Date(hostile)
prepareTimeSeriesData(ds, dateColumn, valueColumn) ==
    IF \E i \in 1..Len(ds.rows) :
          ds.rows[i].isNull \/ DateTime(ds.rows[i].val[dateColumn]).threw
    THEN [threw |-> TRUE, pts |-> <<>>]
    ELSE LET mapped == [i \in 1..Len(ds.rows) |->
                          [date |-> DateTime(ds.rows[i].val[dateColumn]).t,
                           value |-> parseFloat(ds.rows[i].val[valueColumn])]]
             valid(point) == ~isNaN(point.date) /\ ~isNaN(point.value)
         IN [threw |-> FALSE,
             pts |-> CHOOSE r \in {SortByDate(kept) : kept \in {SelectSeq(mapped, valid)}} : TRUE]

\* the records after data.reverse(), which reorders the array it is called on
RowsReversed(rows, dateColumn) == [i \in 1..Len(rows) |-> rows[Len(rows) + 1 - i]]

\* the records of data after prepareTimeSeriesData(data, ...): data.map
\* builds a new array, filter builds another from it, and sort reorders
\* the one filter built
RowsAfterTimeSeries(rows, dateColumn) == rows

\* the records of data after the first n calls of prepareTimeSeriesData
\* made by a loop over the numeric columns
RECURSIVE RowsAfterColumns(_, _, _)
RowsAfterColumns(rows, dateColumn, n) ==
    IF n = 0 THEN rows
    ELSE RowsAfterTimeSeries(RowsAfterColumns(rows, dateColumn, n - 1), dateColumn)

\* SimpleLinearRegression.fit(x, y): [slope, intercept]
fit(x, y) ==
    LET n == RInt(Len(x))
        sumX == RSum(x)
        sumY == RSum(y)
        sumXY == RSum([i \in 1..Len(x) |-> RMul(x[i], y[i])])
        sumXX == RSum([i \in 1..Len(x) |-> RMul(x[i], x[i])])
    IN CHOOSE r \in {[slope |-> slope,
                      intercept |-> RDiv(RSub(sumY, RMul(slope, sumX)), n)] :
                        slope \in {RDiv(RSub(RMul(n, sumXY), RMul(sumX, sumY)),
                                        RSub(RMul(n, sumXX), RMul(sumX, sumX)))}} : TRUE

\* SimpleLinearRegression.predict(x)
predict(reg, x) == RAdd(RMul(reg.slope, x), reg.intercept)

\* SimpleLinearRegression.score(x, y): R squared
score(reg, x, y) ==
    LET yPred == [i \in 1..Len(x) |-> predict(reg, x[i])]
        yMean == RDiv(RSum(y), RInt(Len(y)))
        ssRes == RSum([i \in 1..Len(y) |-> RSq(RSub(y[i], yPred[i]))])
        ssTot == RSum([i \in 1..Len(y) |-> RSq(RSub(y[i], yMean))])
    IN RSub(RInt(1), RDiv(ssRes, ssTot))

\* the regression against the dates: timeSeriesData.map(point => point.date.getTime())
DateSeq(pts) == [i \in 1..Len(pts) |-> pts[i].date]

\* timeSeriesData.map((_, index) => index) and .map(point => point.value)
IndexSeq(pts) == [i \in 1..Len(pts) |-> RInt(i - 1)]
ValueSeq(pts) == [i \in 1..Len(pts) |-> pts[i].value]

\* calculateTrend(timeSeriesData)
calculateTrend(pts) ==
    CHOOSE r \in {[slope |-> regression.slope,
                   rSquared |-> score(regression, IndexSeq(pts), ValueSeq(pts)),
                   direction |-> IF RGreater(regression.slope, RInt(0))
                                 THEN "Upward" ELSE "Downward"] :
                     regression \in {fit(IndexSeq(pts), ValueSeq(pts))}} : TRUE

(***************************************************************************)
(* Insights.  confidence is a Conf: [sq, q, ulp] stands for the number q   *)
(* when sq is FALSE and for the non-negative square root of q when sq is   *)
(* TRUE (the correlation's |r| * 100); ulp is the rounding error of the    *)
(* double that holds it, in units in the last place: smaller than any      *)
(* difference between two exact values, it decides between equal ones.     *)
(***************************************************************************)
Plain(q) == [sq |-> FALSE, q |-> q, ulp |-> 0]
Root(q, ulp) == [sq |-> TRUE, q |-> q, ulp |-> ulp]

\* x < sqrt(y) for y >= 0: x < 0, or x = 0 < y, or x < y / x
BelowRoot(x, y) ==
    ~isNaN(x) /\ ~isNaN(y)
    /\ (x.n < 0 \/ (x.n = 0 /\ y.n > 0) \/ (x.n > 0 /\ RLess(x, RDiv(y, x))))

\* sqrt(y) < x for y >= 0: x > 0 and y / x < x
RootBelow(y, x) ==
    ~isNaN(x) /\ ~isNaN(y) /\ x.n > 0 /\ RLess(RDiv(y, x), x)

\* a < b for the exact values of two confidences; false when either is NaN.
\* A plain confidence and a root are compared as fractions of 100
ExactLess(a, b) ==
    CASE ~a.sq /\ ~b.sq -> RLess(a.q, b.q)
      [] a.sq /\ b.sq -> RLess(a.q, b.q)
      [] ~a.sq /\ b.sq -> BelowRoot(RDiv(a.q, RInt(100)), RDiv(b.q, RInt(10000)))
      [] OTHER -> RootBelow(RDiv(a.q, RInt(10000)), RDiv(b.q, RInt(100)))

CIsNaN(a) == isNaN(a.q)

\* a < b for two confidences
CLess(a, b) ==
    \/ ExactLess(a, b)
    \/ ~CIsNaN(a) /\ ~CIsNaN(b) /\ ~ExactLess(a, b) /\ ~ExactLess(b, a) /\ a.ulp < b.ulp
CEq(a, b) == ~CIsNaN(a) /\ ~CIsNaN(b) /\ ~CLess(a, b) /\ ~CLess(b, a)
CLeq(a, b) == ~CIsNaN(a) /\ ~CIsNaN(b) /\ ~CLess(b, a)

\* the columns as the items of a loop: one tuple <<column>> for each
Singletons(cols) == [i \in 1..Len(cols) |-> <<cols[i]>>]

\* the body of a for loop whose iterations run inside try/catch: r[i] is
\* the [threw, ins] of iteration i on item[i] (a tuple of column names),
\* ins holding the insight the iteration pushes, if any; a throwing
\* iteration pushes none and logs its item with console.error
LoopResult(item, r) ==
    LET index == [i \in 1..Len(item) |-> i]
        pushes(i) == ~r[i].threw /\ r[i].ins # <<>>
        throws(i) == r[i].threw
        pushed == SelectSeq(index, pushes)
        thrown == SelectSeq(index, throws)
    IN [threw |-> FALSE,
        out |-> [k \in 1..Len(pushed) |-> r[pushed[k]].ins[1]],
        log |-> [k \in 1..Len(thrown) |-> item[thrown[k]]]]

Thrown == [threw |-> TRUE, out |-> <<>>, log |-> <<>>]
Nothing == [threw |-> FALSE, out |-> <<>>, log |-> <<>>]

MinTrendPoints == 3
TrendSlopeDen == 100        \* the slope threshold 0.01 is 1 / TrendSlopeDen
TrendCap == 95
MinPredictionRows == 5
MinPredictionPoints == 5
PredictionCap == 85

\* the test without Math.abs
SlopeIsAboveThreshold(slope) == RGreater(slope, Rat(1, TrendSlopeDen))

\* Math.abs(trend.slope) > 0.01
SlopeIsSignificant(slope) == RGreater(RAbs(slope), Rat(1, TrendSlopeDen))

\* the confidence without Math.min
TrendConfidenceUncapped(rSquared) == Plain(RMul(rSquared, RInt(100)))

\* Math.min(trend.rSquared * 100, 95)
TrendConfidence(rSquared) == Plain(RMin(RMul(rSquared, RInt(100)), RInt(TrendCap)))

\* the test against 0.5
FitIsAboveHalf(rSquared) == RGreater(rSquared, Rat(1, 2))

\* rSquared > 0.3
FitIsReasonable(rSquared) == RGreater(rSquared, Rat(3, 10))

\* Math.min(rSquared * 100, 85)
PredictionConfidence(rSquared) == Plain(RMin(RMul(rSquared, RInt(100)), RInt(PredictionCap)))

\* the insight of identifyTrends for a column, or none: [threw, ins]
TrendInsight(column, pts, trend) ==
    IF SlopeIsSignificant(trend.slope)
    THEN [threw |-> FALSE,
          ins |-> <<[type |-> "trend",
                     column |-> column,
                     direction |-> trend.direction,
                     confidence |-> TrendConfidence(trend.rSquared),
                     slope |-> trend.slope,
                     rSquared |-> trend.rSquared,
                     timeSeriesData |-> pts]>>]
    ELSE [threw |-> FALSE, ins |-> <<>>]

\* the iteration without the test of the length
TrendOfAnySeries(column, ts) ==
    IF ts.threw THEN [threw |-> TRUE, ins |-> <<>>]
    ELSE CHOOSE r \in {TrendInsight(column, ts.pts, trend) :
                          trend \in {calculateTrend(ts.pts)}} : TRUE

\* one iteration of the loop of identifyTrends, the time series prepared
TrendOfSeries(column, ts) ==
    IF ts.threw THEN [threw |-> TRUE, ins |-> <<>>]
    ELSE IF Len(ts.pts) < MinTrendPoints THEN [threw |-> FALSE, ins |-> <<>>]
    ELSE CHOOSE r \in {TrendInsight(column, ts.pts, trend) :
                          trend \in {calculateTrend(ts.pts)}} : TRUE

\* one iteration of the loop of identifyTrends: [threw, ins]
TrendOfColumn(ds, dateColumn, column) ==
    CHOOSE r \in {TrendOfSeries(column, ts) :
                     ts \in {prepareTimeSeriesData(ds, dateColumn, column)}} : TRUE

\* identifyTrends(data): [threw, out, log]
identifyTrends(ds) ==
    LET numericColumns == getNumericColumns(ds)
        dateColumn == getDateColumn(ds)
    IN IF numericColumns.threw \/ dateColumn.threw THEN Thrown
       ELSE IF ~dateColumn.found \/ Len(numericColumns.cols) = 0 THEN Nothing
       ELSE LoopResult(Singletons(numericColumns.cols),
                       [i \in 1..Len(numericColumns.cols) |->
                           TrendOfColumn(ds, dateColumn.col, numericColumns.cols[i])])

\* the prediction made only for a column that has a trend
PredictionInsightOfTrend(column, pts, regression, rSquared) ==
    IF FitIsReasonable(rSquared) /\ SlopeIsSignificant(regression.slope)
    THEN [threw |-> FALSE,
          ins |-> <<[type |-> "prediction",
                     column |-> column,
                     confidence |-> PredictionConfidence(rSquared),
                     prediction |-> predict(regression, RInt(Len(pts))),
                     rSquared |-> rSquared,
                     slope |-> regression.slope,
                     intercept |-> regression.intercept]>>]
    ELSE [threw |-> FALSE, ins |-> <<>>]

\* the insight with the prediction at the last observed index
PredictionInsightAtLastIndex(column, pts, regression, rSquared) ==
    IF FitIsReasonable(rSquared)
    THEN [threw |-> FALSE,
          ins |-> <<[type |-> "prediction",
                     column |-> column,
                     confidence |-> PredictionConfidence(rSquared),
                     prediction |-> predict(regression, RInt(Len(pts) - 1)),
                     rSquared |-> rSquared,
                     slope |-> regression.slope,
                     intercept |-> regression.intercept]>>]
    ELSE [threw |-> FALSE, ins |-> <<>>]

\* the insight of generatePredictions for a column, or none: [threw, ins]
PredictionInsight(column, pts, regression, rSquared) ==
    IF FitIsReasonable(rSquared)
    THEN [threw |-> FALSE,
          ins |-> <<[type |-> "prediction",
                     column |-> column,
                     confidence |-> PredictionConfidence(rSquared),
                     prediction |-> predict(regression, RInt(Len(pts))),
                     rSquared |-> rSquared,
                     slope |-> regression.slope,
                     intercept |-> regression.intercept]>>]
    ELSE [threw |-> FALSE, ins |-> <<>>]

\* one iteration of the loop of generatePredictions, the regression fitted
PredictionOfFit(column, pts, regression) ==
    CHOOSE r \in {PredictionInsight(column, pts, regression, rSquared) :
                     rSquared \in {score(regression, IndexSeq(pts), ValueSeq(pts))}} : TRUE

\* one iteration of the loop of generatePredictions, the time series prepared
PredictionOfSeries(column, ts) ==
    IF ts.threw THEN [threw |-> TRUE, ins |-> <<>>]
    ELSE IF Len(ts.pts) < MinPredictionPoints THEN [threw |-> FALSE, ins |-> <<>>]
    ELSE CHOOSE r \in {PredictionOfFit(column, ts.pts, regression) :
                          regression \in {fit(IndexSeq(ts.pts), ValueSeq(ts.pts))}} : TRUE

\* one iteration of the loop of generatePredictions: [threw, ins]
PredictionOfColumn(ds, dateColumn, column) ==
    CHOOSE r \in {PredictionOfSeries(column, ts) :
                     ts \in {prepareTimeSeriesData(ds, dateColumn, column)}} : TRUE

\* generatePredictions(data): [threw, out, log]
generatePredictions(ds) ==
    LET numericColumns == getNumericColumns(ds)
        dateColumn == getDateColumn(ds)
    IN IF numericColumns.threw \/ dateColumn.threw THEN Thrown
       ELSE IF ~dateColumn.found \/ Len(numericColumns.cols) = 0
               \/ Len(ds.rows) < MinPredictionRows THEN Nothing
       ELSE LoopResult(Singletons(numericColumns.cols),
                       [i \in 1..Len(numericColumns.cols) |->
                           PredictionOfColumn(ds, dateColumn.col, numericColumns.cols[i])])

(***************************************************************************)
(* Correlation, anomaly and segmentation analyzers.                        *)
(***************************************************************************)
\* data.map(row => parseFloat(row[column])).filter(v => !isNaN(v)):
\* [threw, vals]; row[column] of a null record throws
ColumnValues(ds, column) ==
    IF \E i \in 1..Len(ds.rows) : ds.rows[i].isNull
    THEN [threw |-> TRUE, vals |-> <<>>]
    ELSE LET parsed == [i \in 1..Len(ds.rows) |-> parseFloat(ds.rows[i].val[column])]
             valid(v) == ~isNaN(v)
         IN [threw |-> FALSE, vals |-> SelectSeq(parsed, valid)]

\* stats.mean(values)
Mean(values) == RDiv(RSum(values), RInt(Len(values)))

\* the sum of the products of the deviations from the means
SumDeviationProducts(x, y) ==
    LET xMean == Mean(x)
        yMean == Mean(y)
    IN RSum([i \in 1..Len(x) |-> RMul(RSub(x[i], xMean), RSub(y[i], yMean))])

\* the rounding errors a quotient of doubles can be left with
Roundings == {-1, 0, 1}

\* stats.sampleCorrelation(x, y) = sampleCovariance(x, y) /
\* sampleStandardDeviation(x) / sampleStandardDeviation(y), as
\* [nan, sign, rsq, ulp]: rsq is the square of the exact coefficient, sign
\* its sign; NaN when a standard deviation is 0.  The two square roots and
\* the two divisions round: for perfectly correlated samples the double
\* returned is 1 - 2^-53, 1 or 1 + 2^-52 in magnitude (1.0000000000000002
\* for x = y = [0, 0, 3]), which is the ulp the caller passes; the rounding
\* of any other coefficient is not modelled
CorrelationOf(cov, xVar, yVar, ulp) ==
    CHOOSE r \in {[nan |-> isNaN(rsq),
                   sign |-> IF isNaN(cov) THEN 0
                            ELSE IF cov.n > 0 THEN 1 ELSE IF cov.n < 0 THEN -1 ELSE 0,
                   rsq |-> rsq,
                   ulp |-> IF REq(rsq, RInt(1)) THEN ulp ELSE 0] :
                     rsq \in {RDiv(RSq(cov), RMul(xVar, yVar))}} : TRUE

sampleCorrelation(x, y, ulp) ==
    CHOOSE r \in {CorrelationOf(cov, xVar, yVar, ulp) :
                     cov \in {RDiv(SumDeviationProducts(x, y), RInt(Len(x) - 1))},
                     xVar \in {RDiv(SumDeviationProducts(x, x), RInt(Len(x) - 1))},
                     yVar \in {RDiv(SumDeviationProducts(y, y), RInt(Len(x) - 1))}} : TRUE

MinCorrelationPoints == 3

\* the test without Math.abs
CorrelationAbove(correlation, num, den) ==
    ~correlation.nan /\ correlation.sign > 0
    /\ RGreater(correlation.rsq, Rat(num * num, den * den))

\* Math.abs(correlation) > num / den, for num / den < 1
AbsCorrelationAbove(correlation, num, den) ==
    ~correlation.nan /\ RGreater(correlation.rsq, Rat(num * num, den * den))

\* Math.abs(correlation) * 100
CorrelationConfidence(correlation) ==
    Root(RMul(correlation.rsq, RInt(10000)), correlation.ulp)

\* the insight of findCorrelations for a pair of columns, or none
CorrelationInsight(col1, col2, correlation) ==
    IF AbsCorrelationAbove(correlation, 5, 10)
    THEN [threw |-> FALSE,
          ins |-> <<[type |-> "correlation",
                     column1 |-> col1,
                     column2 |-> col2,
                     confidence |-> CorrelationConfidence(correlation),
                     correlation |-> correlation,
                     strength |-> IF AbsCorrelationAbove(correlation, 8, 10)
                                  THEN "strong" ELSE "moderate",
                     direction |-> IF correlation.sign > 0
                                   THEN "positive" ELSE "negative"]>>]
    ELSE [threw |-> FALSE, ins |-> <<>>]

\* the iteration that throws when the lengths differ
CorrelationOfEqualLengths(col1, col2, v1, v2, ulp) ==
    IF v1.threw \/ v2.threw \/ Len(v1.vals) # Len(v2.vals) THEN [threw |-> TRUE, ins |-> <<>>]
    ELSE IF Len(v1.vals) < MinCorrelationPoints
    THEN [threw |-> FALSE, ins |-> <<>>]
    ELSE CHOOSE r \in {CorrelationInsight(col1, col2, correlation) :
                          correlation \in {sampleCorrelation(v1.vals, v2.vals, ulp)}} : TRUE

\* one iteration of the inner loop of findCorrelations, the two columns read
CorrelationOfValues(col1, col2, v1, v2, ulp) ==
    IF v1.threw \/ v2.threw THEN [threw |-> TRUE, ins |-> <<>>]
    ELSE IF Len(v1.vals) # Len(v2.vals) \/ Len(v1.vals) < MinCorrelationPoints
    THEN [threw |-> FALSE, ins |-> <<>>]
    ELSE CHOOSE r \in {CorrelationInsight(col1, col2, correlation) :
                          correlation \in {sampleCorrelation(v1.vals, v2.vals, ulp)}} : TRUE

\* one iteration of the inner loop of findCorrelations: [threw, ins]
CorrelationOfPair(ds, col1, col2, ulp) ==
    CHOOSE r \in {CorrelationOfValues(col1, col2, v1, v2, ulp) :
                     v1 \in {ColumnValues(ds, col1)},
                     v2 \in {ColumnValues(ds, col2)}} : TRUE

\* the (i, j) of the nested loops for i, for j = i + 1, in loop order
ColumnPairs(cols) ==
    LET n == Len(cols)
        all == [k \in 1..(n * n) |-> <<((k - 1) \div n) + 1, ((k - 1) % n) + 1>>]
        inLoop(ij) == ij[1] < ij[2]
        looped == SelectSeq(all, inLoop)
    IN [k \in 1..Len(looped) |-> <<cols[looped[k][1]], cols[looped[k][2]]>>]

\* findCorrelations(data): [threw, out, log]
findCorrelations(ds, ulp) ==
    LET numericColumns == getNumericColumns(ds)
    IN IF numericColumns.threw THEN Thrown
       ELSE IF Len(numericColumns.cols) < 2 THEN Nothing
       ELSE LET pairs == ColumnPairs(numericColumns.cols)
            IN LoopResult(pairs,
                          [i \in 1..Len(pairs) |->
                              CorrelationOfPair(ds, pairs[i][1], pairs[i][2], ulp)])

MinAnomalyValues == 10
AnomalyCap == 90

\* Math.min((anomalies.length / values.length) * 500, 90)
AnomalyConfidence(count, total) ==
    Plain(RMin(RMul(Rat(count, total), RInt(500)), RInt(AnomalyCap)))

\* the insight of detectAnomalies for a column, or none
AnomalyInsight(column, total, anomalies, mean, thresholdSq) ==
    IF Len(anomalies) > 0
    THEN [threw |-> FALSE,
          ins |-> <<[type |-> "anomaly",
                     column |-> column,
                     confidence |-> AnomalyConfidence(Len(anomalies), total),
                     anomalies |-> anomalies,
                     mean |-> mean,
                     thresholdSq |-> thresholdSq]>>]
    ELSE [threw |-> FALSE, ins |-> <<>>]

\* the filter with >= in place of >
RowsAtThreshold(ds, column, mean, thresholdSq) ==
    LET anomalous(i) == /\ ~isNaN(parseFloat(ds.rows[i].val[column]))
                        /\ ~RLess(RSq(RSub(parseFloat(ds.rows[i].val[column]), mean)),
                                  thresholdSq)
    IN SelectSeq([i \in 1..Len(ds.rows) |-> i], anomalous)

\* data.filter(row => !isNaN(value) && Math.abs(value - mean) > threshold),
\* as the indices of the rows kept; stdDev is carried as the population
\* variance and threshold = 2 * stdDev as its square, so that
\* |value - mean| > threshold is (value - mean)^2 > thresholdSq
AnomalousRows(ds, column, mean, thresholdSq) ==
    LET anomalous(i) == /\ ~isNaN(parseFloat(ds.rows[i].val[column]))
                        /\ RGreater(RSq(RSub(parseFloat(ds.rows[i].val[column]), mean)),
                                    thresholdSq)
    IN SelectSeq([i \in 1..Len(ds.rows) |-> i], anomalous)

\* the iteration with the confidence taken over data.length
AnomaliesOfAllRows(ds, column, total, mean, thresholdSq) ==
    CHOOSE r \in {AnomalyInsight(column, Len(ds.rows), anomalies, mean, thresholdSq) :
                     anomalies \in {AnomalousRows(ds, column, mean, thresholdSq)}} : TRUE

\* one iteration of the loop of detectAnomalies, mean and threshold computed
AnomaliesOfStats(ds, column, total, mean, thresholdSq) ==
    CHOOSE r \in {AnomalyInsight(column, total, anomalies, mean, thresholdSq) :
                     anomalies \in {AnomalousRows(ds, column, mean, thresholdSq)}} : TRUE

\* the iteration with the test values.length < 9
AnomaliesOfNineValues(ds, column, v) ==
    IF v.threw THEN [threw |-> TRUE, ins |-> <<>>]
    ELSE IF Len(v.vals) < MinAnomalyValues - 1 THEN [threw |-> FALSE, ins |-> <<>>]
    ELSE CHOOSE r \in {AnomaliesOfStats(ds, column, Len(v.vals), mean, thresholdSq) :
                          mean \in {Mean(v.vals)},
                          thresholdSq \in {RMul(RInt(4),
                                                RDiv(SumDeviationProducts(v.vals, v.vals),
                                                     RInt(Len(v.vals))))}} : TRUE

\* one iteration of the loop of detectAnomalies, the column read
AnomaliesOfValues(ds, column, v) ==
    IF v.threw THEN [threw |-> TRUE, ins |-> <<>>]
    ELSE IF Len(v.vals) < MinAnomalyValues THEN [threw |-> FALSE, ins |-> <<>>]
    ELSE CHOOSE r \in {AnomaliesOfStats(ds, column, Len(v.vals), mean, thresholdSq) :
                          mean \in {Mean(v.vals)},
                          thresholdSq \in {RMul(RInt(4),
                                                RDiv(SumDeviationProducts(v.vals, v.vals),
                                                     RInt(Len(v.vals))))}} : TRUE

\* one iteration of the loop of detectAnomalies: [threw, ins]
AnomaliesOfColumn(ds, column) ==
    CHOOSE r \in {AnomaliesOfValues(ds, column, v) : v \in {ColumnValues(ds, column)}} : TRUE

\* detectAnomalies(data): [threw, out, log]
detectAnomalies(ds) ==
    LET numericColumns == getNumericColumns(ds)
    IN IF numericColumns.threw THEN Thrown
       ELSE LoopResult(Singletons(numericColumns.cols),
                       [i \in 1..Len(numericColumns.cols) |->
                           AnomaliesOfColumn(ds, numericColumns.cols[i])])

MinSegmentRows == 10
MinSegmentPoints == 6
MaxClusters == 3
SegmentConfidence == 75

\* parseFloat(cell) without || 0
OrNaN(v) == v

\* parseFloat(cell) || 0
OrZero(v) == IF isNaN(v) \/ v.n = 0 THEN RInt(0) ELSE v

\* the value undefined, and a value that is not
Undefined == [defined |-> FALSE]
Defined(v) == [defined |-> TRUE, v |-> v]

\* the squared Euclidean distance of two 2-D points, the distance kmeans
\* uses unless it is given another
SquaredDistance(p, q) ==
    RAdd(RSq(RSub(p[1], q[1])), RSq(RSub(p[2], q[2])))

\* the index, from 0, of the first least of the distances
FirstLeast(distance) ==
    (CHOOSE c \in 1..Len(distance) :
        \A d \in 1..Len(distance) :
           /\ d < c => RLess(distance[c], distance[d])
           /\ d > c => ~RLess(distance[d], distance[c]))
    - 1

\* the index, from 0, of the first of the centers nearest to the point
Nearest(centers, p) ==
    FirstLeast([c \in 1..Len(centers) |-> SquaredDistance(centers[c], p)])

\* the mean of the points of a cluster in each dimension; an empty cluster
\* keeps the center it had
CenterOf(points, members, previous) ==
    IF members = <<>> THEN previous
    ELSE <<Mean([m \in 1..Len(members) |-> points[members[m]][1]]),
           Mean([m \in 1..Len(members) |-> points[members[m]][2]])>>

UpdatedCenters(points, clusterID, centers) ==
    [c \in 1..Len(centers) |->
        LET labelled(i) == clusterID[i] = c - 1
        IN CenterOf(points, SelectSeq([i \in 1..Len(points) |-> i], labelled), centers[c])]

\* the iterations of kmeans from the given centers: every point is given
\* the index of its nearest center, every center is moved to the mean of
\* its points, until no center moves.  The result has the fields the
\* analyzer reads: clusters, the cluster index of every point, one entry
\* for each point, and centroids, one entry for each cluster
RECURSIVE Iterate(_, _)
Iterate(points, centers) ==
    CHOOSE r \in {CHOOSE q \in {IF newCenters = centers
                                THEN [clusters |-> clusterID, centroids |-> newCenters]
                                ELSE Iterate(points, newCenters) :
                                   newCenters \in {UpdatedCenters(points, clusterID, centers)}} :
                     TRUE :
                     clusterID \in {[i \in 1..Len(points) |-> Nearest(centers, points[i])]}} :
        TRUE

\* kmeans(points, k, { initialization: 'random' }): the initial centers are
\* k of the points drawn at random, here the k points that follow the
\* first offset ones
kmeans(points, k, offset) == Iterate(points, [j \in 1..k |-> points[offset + j]])

\* clusters.map((cluster, index) => ({ id: index + 1, size: cluster.length,
\* centroid: result.centroids[index], points: cluster })): cluster is the
\* cluster index of a point, a number, which has no length, and centroids
\* has no entry at the index of a point past the last cluster
Segments(kmeansResult) ==
    [i \in 1..Len(kmeansResult.clusters) |->
        [id |-> i,
         size |-> Undefined,
         centroid |-> IF i <= Len(kmeansResult.centroids)
                      THEN Defined(kmeansResult.centroids[i]) ELSE Undefined,
         points |-> kmeansResult.clusters[i]]]

\* one insight for each cluster
SegmentInsightPerCluster(col1, col2, points, k, kmeansResult) ==
    [threw |-> FALSE,
     out |-> [c \in 1..k |->
                [type |-> "segment",
                 confidence |-> Plain(RInt(SegmentConfidence)),
                 columns |-> <<col1, col2>>,
                 segments |-> <<Segments(kmeansResult)[c]>>,
                 k |-> k]],
     log |-> <<>>,
     calls |-> <<[points |-> points, k |-> k]>>]

\* the insight of performSegmentation, with the arguments kmeans was given
SegmentInsight(col1, col2, points, k, kmeansResult) ==
    [threw |-> FALSE,
     out |-> <<[type |-> "segment",
                confidence |-> Plain(RInt(SegmentConfidence)),
                columns |-> <<col1, col2>>,
                segments |-> Segments(kmeansResult),
                k |-> k]>>,
     log |-> <<>>,
     calls |-> <<[points |-> points, k |-> k]>>]

\* the try block with k = Math.min(3, Math.floor(points.length / 4))
SegmentationOfPointsInQuarters(col1, col2, mapped, offset) ==
    LET kept(point) == ~isNaN(point[1]) /\ ~isNaN(point[2])
        points == SelectSeq(mapped, kept)
    IN IF Len(points) < MinSegmentPoints
       THEN [threw |-> FALSE, out |-> <<>>, log |-> <<>>, calls |-> <<>>]
       ELSE CHOOSE r \in {SegmentInsight(col1, col2, points, k, kmeansResult) :
                             k \in {IF MaxClusters < Len(points) \div 4
                                    THEN MaxClusters ELSE Len(points) \div 4},
                             kmeansResult \in
                                 {kmeans(points,
                                         IF MaxClusters < Len(points) \div 4
                                         THEN MaxClusters ELSE Len(points) \div 4,
                                         offset)}} : TRUE

\* the try block of performSegmentation, the points mapped
SegmentationOfPoints(col1, col2, mapped, offset) ==
    LET kept(point) == ~isNaN(point[1]) /\ ~isNaN(point[2])
        points == SelectSeq(mapped, kept)
    IN IF Len(points) < MinSegmentPoints
       THEN [threw |-> FALSE, out |-> <<>>, log |-> <<>>, calls |-> <<>>]
       ELSE CHOOSE r \in {SegmentInsight(col1, col2, points, k, kmeansResult) :
                             k \in {IF MaxClusters < Len(points) \div 3
                                    THEN MaxClusters ELSE Len(points) \div 3},
                             kmeansResult \in
                                 {kmeans(points,
                                         IF MaxClusters < Len(points) \div 3
                                         THEN MaxClusters ELSE Len(points) \div 3,
                                         offset)}} : TRUE

\* performSegmentation(data): [threw, out, log, calls], calls holding the
\* arguments of the call of kmeans, if it is made; row[col1] of a null
\* record throws inside the try block, whose catch logs the error
performSegmentation(ds, offset) ==
    LET numericColumns == getNumericColumns(ds)
    IN IF numericColumns.threw
       THEN [threw |-> TRUE, out |-> <<>>, log |-> <<>>, calls |-> <<>>]
       ELSE IF Len(numericColumns.cols) < 2 \/ Len(ds.rows) < MinSegmentRows
       THEN [threw |-> FALSE, out |-> <<>>, log |-> <<>>, calls |-> <<>>]
       ELSE IF \E i \in 1..Len(ds.rows) : ds.rows[i].isNull
       THEN [threw |-> FALSE, out |-> <<>>, log |-> <<<<"segmentation">>>>, calls |-> <<>>]
       ELSE SegmentationOfPoints(
                numericColumns.cols[1], numericColumns.cols[2],
                [i \in 1..Len(ds.rows) |->
                    <<OrZero(parseFloat(ds.rows[i].val[numericColumns.cols[1]])),
                      OrZero(parseFloat(ds.rows[i].val[numericColumns.cols[2]]))>>],
                offset)

(***************************************************************************)
(* The automation manager.  A rule is an object: heap holds the objects    *)
(* in the order of their creation and a reference is an index of heap, so  *)
(* that the map of the rules, a timer callback and a call in progress can  *)
(* hold the same object or different ones.  rules is the Map from id to    *)
(* reference, timers the Map from id to the timeout: [rule, armed], rule   *)
(* the object the callback closes over, armed FALSE once the timeout has   *)
(* fired or was cleared.  The id `rule-${Date.now()}` is stored as the     *)
(* reading of the clock.  nextRun, which is written and never read, is     *)
(* left out, and so is the file that saveRules writes.                     *)
(*                                                                         *)
(* An async method runs until its first await without interruption; the    *)
(* actions are these segments.  deleteRule, pauseRule and resumeRule only  *)
(* show a notification after their last await, so each is one action.      *)
(***************************************************************************)
\* the rules given to createAutomationRule: those of scheduleWeeklyReports
\* and of setupDataChangeAlerts, and a scheduled rule that is not enabled
RuleInputs ==
    {[name |-> "Weekly Analysis Report", trigger |-> "schedule", action |-> "report",
      hasSchedule |-> TRUE, enabled |-> TRUE],
     [name |-> "Data Alert", trigger |-> "data-change", action |-> "alert",
      hasSchedule |-> FALSE, enabled |-> TRUE],
     [name |-> "Dashboard Update", trigger |-> "schedule", action |-> "dashboard-update",
      hasSchedule |-> TRUE, enabled |-> FALSE]}

\* { id, ...rule }
NewRule(id, rule) ==
    [id |-> id, name |-> rule.name, trigger |-> rule.trigger, action |-> rule.action,
     hasSchedule |-> rule.hasSchedule, enabled |-> rule.enabled, lastRun |-> Undefined]

\* this.rules.set(id, automationRule) and this.timers.set(rule.id, timer)
MapSet(map, key, value) ==
    [k \in DOMAIN map \cup {key} |-> IF k = key THEN value ELSE map[k]]

\* this.rules.delete(ruleId) and this.timers.delete(ruleId)
MapDelete(map, key) == [k \in DOMAIN map \ {key} |-> map[k]]

\* scheduleRule(rule): the timers after the call.  calculateNextRun gives
\* a time after now for the frequencies hourly, daily and weekly, so that
\* delay > 0; clearTimeout(existingTimer) disarms the timeout that
\* timers.set replaces
scheduleRule(ref, rule) ==
    IF rule.trigger # "schedule" \/ ~rule.hasSchedule THEN timers
    ELSE MapSet(timers, rule.id, [rule |-> ref, armed |-> TRUE])

\* const timer = this.timers.get(ruleId);
\* if (timer) { clearTimeout(timer); this.timers.delete(ruleId); }
ClearTimer(id) == MapDelete(timers, id)

\* the body of executeRule for a rule that exists: withProgress is called
\* and not awaited, so the task it starts is left running and the
\* notification of success is shown at once; the catch block is not
\* entered, as withProgress returns a promise and does not throw
Started(ref) ==
    [rule |-> ref, stage |-> "running", success |-> TRUE, error |-> FALSE,
     lastRunBefore |-> heap[ref].lastRun, afterDelete |-> ref \in deleted]

\* the clock advances by a millisecond
Tick ==
    /\ now < MaxClock
    /\ now' = now + 1
    /\ UNCHANGED <<heap, rules, timers, creating, returnedIds, deleted, runs, engineVars>>

\* createAutomationRule(rule) up to await this.saveRules()
createAutomationRule ==
    /\ Len(heap) < MaxRules
    /\ \E rule \in RuleInputs : heap' = Append(heap, NewRule(now, rule))
    /\ rules' = MapSet(rules, now, Len(heap) + 1)
    /\ creating' = Append(creating, Len(heap) + 1)
    /\ UNCHANGED <<now, timers, returnedIds, deleted, runs, engineVars>>

\* createAutomationRule after await this.saveRules():
\* if (automationRule.enabled) await this.scheduleRule(automationRule);
\* and, after the notification, return id
createAutomationRuleResumes ==
    /\ creating # <<>>
    /\ \E ref \in {Head(creating)} :
          /\ timers' = IF heap[ref].enabled THEN scheduleRule(ref, heap[ref]) ELSE timers
          /\ returnedIds' = Append(returnedIds, heap[ref].id)
    /\ creating' = Tail(creating)
    /\ UNCHANGED <<now, heap, rules, deleted, runs, engineVars>>

\* deleteRule(ruleId) of a rule that exists
deleteRule ==
    /\ \E id \in DOMAIN rules :
          /\ timers' = ClearTimer(id)
          /\ rules' = MapDelete(rules, id)
          /\ deleted' = deleted \cup {rules[id]}
    /\ UNCHANGED <<now, heap, creating, returnedIds, runs, engineVars>>

\* pauseRule(ruleId) of a rule that exists
pauseRule ==
    /\ \E id \in DOMAIN rules :
          /\ heap' = [heap EXCEPT ![rules[id]].enabled = FALSE]
          /\ timers' = ClearTimer(id)
    /\ UNCHANGED <<now, rules, creating, returnedIds, deleted, runs, engineVars>>

\* resumeRule(ruleId) of a rule that exists
resumeRule ==
    /\ \E id \in DOMAIN rules :
          /\ heap' = [heap EXCEPT ![rules[id]].enabled = TRUE]
          /\ timers' = scheduleRule(rules[id], heap[rules[id]])
    /\ UNCHANGED <<now, rules, creating, returnedIds, deleted, runs, engineVars>>

\* executeRule(ruleId) of a rule that exists, called by the extension
executeRule ==
    /\ Len(runs) < MaxRuns
    /\ \E id \in DOMAIN rules : runs' = Append(runs, Started(rules[id]))
    /\ UNCHANGED <<now, heap, rules, timers, creating, returnedIds, deleted, engineVars>>

\* the callback of setTimeout: await this.executeRule(rule.id), and
\* if (rule.enabled) await this.scheduleRule(rule) when it returns.  The
\* promise of executeRule is settled when the call returns, so the rest of
\* the callback runs before any other call of the manager; a timeout fires
\* when no continuation of a call is pending.  executeRule throws for a
\* rule that is not in the map, and the callback ends there
TimerCallback ==
    /\ creating = <<>>
    /\ \E id \in DOMAIN timers :
          /\ timers[id].armed
          /\ id \in DOMAIN rules => Len(runs) < MaxRuns
          /\ runs' = IF id \in DOMAIN rules THEN Append(runs, Started(rules[id])) ELSE runs
          /\ timers' = IF id \in DOMAIN rules /\ heap[timers[id].rule].enabled
                       THEN scheduleRule(timers[id].rule, heap[timers[id].rule])
                       ELSE [timers EXCEPT ![id].armed = FALSE]
    /\ UNCHANGED <<now, heap, rules, creating, returnedIds, deleted, engineVars>>

\* the task given to withProgress, the action having returnedIds:
\* rule.lastRun = new Date(); ... await this.saveRules();
ActionCompletes ==
    /\ \E r \in 1..Len(runs) :
          /\ runs[r].stage = "running"
          /\ runs' = [runs EXCEPT ![r].stage = "done"]
          /\ heap' = [heap EXCEPT ![runs[r].rule].lastRun = Defined(now)]
    /\ UNCHANGED <<now, rules, timers, creating, returnedIds, deleted, engineVars>>

\* the action throws (fs.writeFileSync of saveReport, thresholds.max of
\* checkThresholds): executeReportGeneration and its like log and rethrow,
\* the promise of the task is rejected and nothing handles it
ActionThrows ==
    /\ \E r \in 1..Len(runs) :
          /\ runs[r].stage = "running"
          /\ runs' = [runs EXCEPT ![r].stage = "failed"]
    /\ UNCHANGED <<now, heap, rules, timers, creating, returnedIds, deleted, engineVars>>

\* the manager after its constructor, no rule having been stored
ManagerBuilt ==
    /\ now = 0
    /\ heap = <<>>
    /\ rules = <<>>
    /\ timers = <<>>
    /\ creating = <<>>
    /\ returnedIds = <<>>
    /\ deleted = {}
    /\ runs = <<>>

ManagerNext ==
    \/ Tick
    \/ createAutomationRule
    \/ createAutomationRuleResumes
    \/ deleteRule
    \/ pauseRule
    \/ resumeRule
    \/ executeRule
    \/ TimerCallback
    \/ ActionCompletes
    \/ ActionThrows

(***************************************************************************)
(* generateInsights.                                                       *)
(***************************************************************************)
\* the comparator written as a.confidence - b.confidence
ComesBeforeAscending(a, b) == CLess(a.confidence, b.confidence)

\* the comparator (a, b) => b.confidence - a.confidence is negative, and a
\* sorts before b, exactly when a.confidence > b.confidence
ComesBefore(a, b) == CLess(b.confidence, a.confidence)

\* Array.prototype.sort is stable: the element at position k goes after the
\* elements that come before it and after those before it that it does not
\* come before
InsightRank(s, k) ==
    1 + Cardinality({j \in 1..Len(s) :
                        \/ ComesBefore(s[j], s[k])
                        \/ j < k /\ ~ComesBefore(s[k], s[j])})

\* a sort that is not stable: equal elements come out in reverse order
SortInsightsBackwards(s) ==
    [r \in 1..Len(s) |->
        s[CHOOSE k \in 1..Len(s) :
             1 + Cardinality({j \in 1..Len(s) :
                                 \/ ComesBefore(s[j], s[k])
                                 \/ j > k /\ ~ComesBefore(s[k], s[j])}) = r]]

\* the sort followed by a cut to the three best insights
SortInsightsCapped(s) ==
    [r \in 1..(IF Len(s) > 3 THEN 3 ELSE Len(s)) |->
        s[CHOOSE k \in 1..Len(s) : InsightRank(s, k) = r]]

SortInsights(s) ==
    [r \in 1..Len(s) |-> s[CHOOSE k \in 1..Len(s) : InsightRank(s, k) = r]]

\* the analyzer awaited at each position of the try block, and the next one
Stages == <<"trends", "correlations", "anomalies", "segmentation", "predictions">>

Analyzer(stage, ds, ulp, offset) ==
    CASE stage = "trends" -> identifyTrends(ds)
      [] stage = "correlations" -> findCorrelations(ds, ulp)
      [] stage = "anomalies" -> detectAnomalies(ds)
      [] stage = "segmentation" -> performSegmentation(ds, offset)
      [] OTHER -> generatePredictions(ds)

\* the analyzer throws: its loop and its try block catch their own errors,
\* and what it calls outside them is getNumericColumns and, in identifyTrends
\* and generatePredictions, getDateColumn
AnalyzerThrows(stage, ds) ==
    \/ getNumericColumns(ds).threw
    \/ stage \in {"trends", "predictions"} /\ getDateColumn(ds).threw

\* the time series an analyzer prepares: one for each numeric column when
\* it reaches its loop, none otherwise
SeriesPrepared(stage, ds) ==
    IF stage \in {"trends", "predictions"} /\ ~AnalyzerThrows(stage, ds)
       /\ getDateColumn(ds).found
       /\ (stage = "predictions" => Len(ds.rows) >= MinPredictionRows)
    THEN Len(getNumericColumns(ds).cols) ELSE 0

\* the records of data after an analyzer: identifyTrends and
\* generatePredictions pass data to prepareTimeSeriesData, the other
\* analyzers call data.map and data.filter, which build new arrays
RowsAfter(stage, ds) ==
    IF SeriesPrepared(stage, ds) = 0 THEN ds.rows
    ELSE RowsAfterColumns(ds.rows, getDateColumn(ds).col, SeriesPrepared(stage, ds))

NextStage(stage) ==
    CASE stage = "trends" -> "correlations"
      [] stage = "correlations" -> "anomalies"
      [] stage = "anomalies" -> "segmentation"
      [] stage = "segmentation" -> "predictions"
      [] OTHER -> "sort"

InStage == \E i \in 1..Len(Stages) : pc = Stages[i]

\* if (!Array.isArray(data) || data.length === 0) return [];
ReturnEmpty ==
    /\ pc = "idle"
    /\ ~isArray \/ Len(data.rows) = 0
    /\ result' = <<>>
    /\ pc' = "done"
    /\ UNCHANGED <<data, isArray, insights, escaped, outerLog, innerLog,
                   kmeansCalls, given, history, managerVars>>

\* the list of insights kept from one call to the next
BeginKeepingInsights ==
    /\ pc = "idle"
    /\ isArray /\ Len(data.rows) # 0
    /\ pc' = "trends"
    /\ UNCHANGED <<data, isArray, insights, result, escaped, outerLog, innerLog,
                   kmeansCalls, given, history, managerVars>>

\* const insights = []; try {
Begin ==
    /\ pc = "idle"
    /\ isArray /\ Len(data.rows) # 0
    /\ insights' = <<>>
    /\ pc' = "trends"
    /\ UNCHANGED <<data, isArray, result, escaped, outerLog, innerLog,
                   kmeansCalls, given, history, managerVars>>

\* insights.push(...await this.<analyzer>(data)), the analyzer returning
RunAnalyzer ==
    /\ InStage /\ pc \notin {"correlations", "segmentation"}
    /\ ~AnalyzerThrows(pc, data)
    /\ \E r \in {Analyzer(pc, data, 0, 0)} :
          /\ insights' = insights \o r.out
          /\ innerLog' = innerLog \o r.log
    /\ data' = [data EXCEPT !.rows = RowsAfter(pc, data)]
    /\ pc' = NextStage(pc)
    /\ UNCHANGED <<isArray, result, escaped, outerLog, kmeansCalls, given, history, managerVars>>

\* the correlation insights among the insights returned
CorrelationsIn(returned) ==
    {returned[i] : i \in {j \in 1..Len(returned) : returned[j].type = "correlation"}}

\* a quotient of doubles is a function of its operands: the coefficients of
\* a dataset round as they did in every earlier call on the same dataset
SameRounding(out) ==
    \A i \in 1..Len(history) :
       history[i].data = data /\ history[i].correlated
           => CorrelationsIn(history[i].result) = CorrelationsIn(out)

\* insights.push(...await this.findCorrelations(data)), returning; ulp is
\* the rounding of the coefficient
RunCorrelations ==
    /\ pc = "correlations"
    /\ ~AnalyzerThrows(pc, data)
    /\ \E ulp \in Roundings :
          \E r \in {findCorrelations(data, ulp)} :
             /\ SameRounding(r.out)
             /\ insights' = insights \o r.out
             /\ innerLog' = innerLog \o r.log
    /\ pc' = NextStage(pc)
    /\ UNCHANGED <<data, isArray, result, escaped, outerLog, kmeansCalls, given, history, managerVars>>

\* insights.push(...await this.performSegmentation(data)), returning;
\* offset stands for the random choice of the initial centers
RunSegmentation ==
    /\ pc = "segmentation"
    /\ ~AnalyzerThrows(pc, data)
    /\ \E offset \in 0..MaxOffset :
          \E r \in {performSegmentation(data, offset)} :
             /\ insights' = insights \o r.out
             /\ innerLog' = innerLog \o r.log
             /\ kmeansCalls' = r.calls
    /\ pc' = NextStage(pc)
    /\ UNCHANGED <<data, isArray, result, escaped, outerLog, given, history, managerVars>>

\* the try block without its catch: the error rejects the promise
CatchErrorRethrows ==
    /\ InStage
    /\ AnalyzerThrows(pc, data)
    /\ escaped' = TRUE
    /\ pc' = "done"
    /\ UNCHANGED <<data, isArray, insights, result, outerLog, innerLog,
                   kmeansCalls, given, history, managerVars>>

\* } catch (error) { console.error('Error generating insights:', error); }
\* the analyzer throwing
CatchError ==
    /\ InStage
    /\ AnalyzerThrows(pc, data)
    /\ outerLog' = TRUE
    /\ pc' = "sort"
    /\ UNCHANGED <<data, isArray, insights, result, escaped, innerLog,
                   kmeansCalls, given, history, managerVars>>

\* return insights.sort((a, b) => b.confidence - a.confidence);
SortAndReturn ==
    /\ pc = "sort"
    /\ result' = SortInsights(insights)
    /\ pc' = "done"
    /\ UNCHANGED <<data, isArray, insights, escaped, outerLog, innerLog,
                   kmeansCalls, given, history, managerVars>>

Next ==
    \/ ReturnEmpty \/ Begin \/ RunAnalyzer \/ RunCorrelations \/ RunSegmentation
    \/ CatchError \/ SortAndReturn

(***************************************************************************)
(* The datasets analysed.  Every dataset has the keys t, a, b in this      *)
(* order.  Column a holds numbers; column t and column b follow a pattern; *)
(* a defect replaces one cell or one record.                               *)
(***************************************************************************)
Keys == <<"t", "a", "b">>

TCell(tp, i, n) ==
    CASE tp = "asc" -> DateStr(i)
      [] tp = "desc" -> DateStr(n + 1 - i)
      [] tp = "tie" -> DateStr((i + 1) \div 2)
      [] tp = "num" -> Num(i)
      [] tp = "text" -> Text
      [] OTHER -> Hostile

BCell(bp, av, i) ==
    CASE bp = "same" -> Num(av)
      [] bp = "alt" -> Num(i % 2)
      [] bp = "lin" -> Num(i - 1)
      [] OTHER -> Text

MkRow(tp, bp, df, aseq, i) ==
    IF (df = "null1" /\ i = 1) \/ (df = "null2" /\ i = 2) THEN NullRow
    ELSE Row([key \in {"t", "a", "b"} |->
                CASE key = "t" -> IF df = "holeT2" /\ i = 2 THEN Text
                                  ELSE TCell(tp, i, Len(aseq))
                  [] key = "a" -> IF \/ df \in {"holeA2", "holeA2B3"} /\ i = 2
                                     \/ df \in {"holeA1B2", "holeA1"} /\ i = 1
                                  THEN Text
                                  ELSE Num(aseq[i])
                  [] OTHER -> IF \/ df = "holeA2B3" /\ i = 3
                                 \/ df = "holeA1B2" /\ i = 2
                              THEN Text
                              ELSE BCell(bp, aseq[i], i)])

MkData(tp, bp, df, aseq) ==
    [keys |-> Keys, rows |-> [i \in 1..Len(aseq) |-> MkRow(tp, bp, df, aseq, i)]]

TPatterns == {"asc", "desc", "num", "text", "hostile"}
BPatterns == {"same", "alt", "lin", "text"}

\* the patterns combined: every b with an ascending or a textual t, and
\* the b that repeats or alternates with any t
Patterns ==
    {p \in TPatterns \X BPatterns : p[1] \in {"asc", "text"} \/ p[2] \in {"same", "alt"}}
Defects == {"holeA2", "holeA2B3", "holeA1B2", "holeT2", "null1", "null2"}

NumSeqs(n) == [1..n -> {0, MaxVal}]

\* every dataset of at most MaxRows records
ShortData ==
    UNION {
        {MkData(p[1], p[2], "none", aseq) : p \in Patterns, aseq \in NumSeqs(n)}
        \cup {MkData("asc", "same", df, aseq) : df \in Defects, aseq \in NumSeqs(n)}
        \cup {MkData("num", "same", "holeA2", aseq) : aseq \in NumSeqs(n)}
        : n \in 0..MaxRows}

\* datasets whose b grows by one step from a record to the next while a is
\* 0, the dates ascending or descending, a numeric or not, every date
\* parsable or not
LinearData ==
    {MkData(tp, "lin", df, [i \in 1..n |-> 0]) :
        tp \in {"asc", "desc"}, df \in {"none", "holeA1", "holeT2"},
        n \in MinTrendPoints..MaxRows}

\* datasets in which two records have the same date
TiedData ==
    UNION {{MkData("tie", "same", "none", aseq) : aseq \in NumSeqs(n)}
           : n \in MinTrendPoints..MaxRows}

\* LongFree enumerated records followed by filler records whose a is 0
Padded(aseq, pad) == aseq \o [i \in 1..pad |-> 0]

LongData ==
    {MkData("asc", bp, df, Padded(aseq, pad)) :
        bp \in BPatterns, df \in {"none", "holeA2"},
        aseq \in NumSeqs(LongFree), pad \in (MaxPad - 2)..MaxPad}
    \cup {MkData("text", bp, "none", Padded(aseq, pad)) :
             bp \in {"same", "alt"},
             aseq \in NumSeqs(LongFree), pad \in (MaxPad - 2)..MaxPad}
    \cup {MkData("num", "alt", "none", Padded(aseq, MaxPad - 1)) : aseq \in NumSeqs(LongFree)}
    \cup {MkData("asc", "same", "holeA1B2", Padded(aseq, MaxPad)) : aseq \in NumSeqs(LongFree)}

EmptyData == [keys |-> Keys, rows |-> <<>>]

Init ==
    /\ \/ isArray = TRUE /\ data \in ShortData \cup LinearData \cup TiedData \cup LongData
       \/ isArray = FALSE /\ data = EmptyData
    /\ pc = "idle"
    /\ insights = <<>>
    /\ result = <<>>
    /\ escaped = FALSE
    /\ outerLog = FALSE
    /\ innerLog = <<>>
    /\ kmeansCalls = <<>>
    /\ given = data
    /\ history = <<>>
    /\ ManagerBuilt

Spec == Init /\ [][Next]_vars

(***************************************************************************)
(* A session: the engine built once by AnalystAgent analyses one dataset   *)
(* after another, each call returning before the next is made.             *)
(***************************************************************************)
SessionSeqs ==
    {<<0, 0, 0, MaxVal, MaxVal>>, Padded(<<MaxVal, MaxVal>>, MaxPad)}

SessionData ==
    {MkData("asc", "alt", "none", aseq) : aseq \in SessionSeqs}
    \cup {MkData("asc", "same", "none", <<0, 0, MaxVal>>),
          MkData("hostile", "same", "none", <<0, MaxVal>>),
          EmptyData}

\* const insights = await this.analysisEngine.generateInsights(data), once
\* more on the same engine: what the finished call returned is kept in
\* history, with whether it went past findCorrelations
CallAgain ==
    /\ pc = "done" /\ ~escaped
    /\ Len(history) < MaxCalls - 1
    /\ history' = Append(history, [data |-> given,
                                   result |-> result,
                                   correlated |-> Len(given.rows) # 0 /\ ~outerLog])
    /\ \E next \in SessionData : data' = next /\ given' = next
    /\ pc' = "idle"
    /\ result' = <<>>
    /\ outerLog' = FALSE
    /\ innerLog' = <<>>
    /\ kmeansCalls' = <<>>
    /\ UNCHANGED <<isArray, insights, escaped, managerVars>>

SessionInit ==
    /\ isArray = TRUE
    /\ data \in SessionData
    /\ pc = "idle"
    /\ insights = <<>>
    /\ result = <<>>
    /\ escaped = FALSE
    /\ outerLog = FALSE
    /\ innerLog = <<>>
    /\ kmeansCalls = <<>>
    /\ given = data
    /\ history = <<>>
    /\ ManagerBuilt

SessionNext == Next \/ CallAgain

Session == SessionInit /\ [][SessionNext]_vars

(***************************************************************************)
(* The automation manager at work, the engine not being called.            *)
(***************************************************************************)
AutomationInit ==
    /\ isArray = FALSE
    /\ data = EmptyData
    /\ pc = "idle"
    /\ insights = <<>>
    /\ result = <<>>
    /\ escaped = FALSE
    /\ outerLog = FALSE
    /\ innerLog = <<>>
    /\ kmeansCalls = <<>>
    /\ given = data
    /\ history = <<>>
    /\ ManagerBuilt

Automation == AutomationInit /\ [][ManagerNext]_vars

(***************************************************************************)
(* Properties of generateInsights.                                         *)
(***************************************************************************)
Done == pc = "done"

TypeRank(type) ==
    CASE type = "trend" -> 1
      [] type = "correlation" -> 2
      [] type = "anomaly" -> 3
      [] type = "segment" -> 4
      [] OTHER -> 5

\* the columns an insight is about
Subject(x) ==
    CASE x.type = "correlation" -> <<x.column1, x.column2>>
      [] x.type = "segment" -> <<>>
      [] OTHER -> <<x.column>>

\* the position of a tuple in a sequence of distinct tuples, 0 if absent
IndexOf(seq, e) ==
    IF \E i \in 1..Len(seq) : seq[i] = e
    THEN CHOOSE i \in 1..Len(seq) : seq[i] = e
    ELSE 0

\* the place of an insight's columns in its analyzer's loop: column order
\* for one column, column-pair order for two
LoopRank(x) ==
    LET cols == getNumericColumns(data).cols
    IN IF x.type = "correlation" THEN IndexOf(ColumnPairs(cols), Subject(x))
       ELSE IndexOf(Singletons(cols), Subject(x))

GeneratedBefore(x, y) ==
    \/ TypeRank(x.type) < TypeRank(y.type)
    \/ x.type = y.type /\ LoopRank(x) < LoopRank(y)

\* C1: the sequence returned by generateInsights is non-increasing in
\* confidence: result[i].confidence >= result[j].confidence for i < j
C1_SortedByConfidence ==
    Done => \A i, j \in 1..Len(result) :
                i < j => CLeq(result[j].confidence, result[i].confidence)

\* C1 witness: a returned sequence of three insights or more, with
\* different confidences, that the sort had to reorder
C1_Witness ==
    /\ Done
    /\ Len(result) >= 3
    /\ result # insights
    /\ \E i \in 1..Len(result) - 1 : CLess(result[i + 1].confidence, result[i].confidence)

\* C2: insights with equal confidence are returned in generation order:
\* trend, correlation, anomaly, segment, prediction, and within one
\* analyzer in the order of its loop over the columns or column pairs
C2_TiesKeepGenerationOrder ==
    Done => \A i, j \in 1..Len(result) :
                i < j /\ CEq(result[i].confidence, result[j].confidence)
                    => GeneratedBefore(result[i], result[j])

\* C2 witness: a result with two equal confidences of one type and two
\* equal confidences of different types, after a reordering sort
C2_Witness ==
    /\ Done
    /\ result # insights
    /\ \E i, j \in 1..Len(result) :
          /\ i < j /\ result[i].type = result[j].type
          /\ CEq(result[i].confidence, result[j].confidence)
    /\ \E i, j \in 1..Len(result) :
          /\ i < j /\ result[i].type # result[j].type
          /\ CEq(result[i].confidence, result[j].confidence)

Returned(x) == \E i \in 1..Len(result) : result[i] = x

Failed(stage) == Analyzer(stage, data, 0, 0).threw

\* C3: when one analyzer fails, generateInsights still returns every
\* insight that each of the other analyzers produces on the same dataset
C3_FailureDoesNotAbortOthers ==
    Done /\ (\E i \in 1..Len(Stages) : Failed(Stages[i]))
        => \A i \in 1..Len(Stages) :
              ~Failed(Stages[i])
                  => \E ulp \in Roundings, offset \in 0..MaxOffset :
                        LET out == Analyzer(Stages[i], data, ulp, offset).out
                        IN \A k \in 1..Len(out) : Returned(out[k])

\* C4: generateInsights never propagates an exception: no error escapes,
\* a call on a dataset returns the insights gathered (possibly none), and
\* for the empty dataset or a non-array input it returns the empty sequence
C4_NeverPropagates ==
    /\ escaped = FALSE
    /\ Done /\ (~isArray \/ Len(data.rows) = 0) => result = <<>>
    /\ Done /\ isArray /\ Len(data.rows) # 0 => Len(result) = Len(insights)

\* C4 witness: generateInsights has returned after an analyzer threw
C4_Witness == Done /\ outerLog /\ ~escaped

AtMost(c, bound) == CLeq(c, Plain(RInt(bound)))

\* C5: every insight emitted has 0 <= confidence <= 100; trend <= 95,
\* anomaly <= 90, prediction <= 85 and segment = 75
C5_ConfidenceBounds ==
    \A i \in 1..Len(insights) :
        LET x == insights[i]
        IN /\ CLeq(Plain(RInt(0)), x.confidence)
           /\ AtMost(x.confidence, 100)
           /\ x.type = "trend" => AtMost(x.confidence, TrendCap)
           /\ x.type = "anomaly" => AtMost(x.confidence, AnomalyCap)
           /\ x.type = "prediction" => AtMost(x.confidence, PredictionCap)
           /\ x.type = "segment" => CEq(x.confidence, Plain(RInt(SegmentConfidence)))

(***************************************************************************)
(* Properties of the analyzers.  They are stated for the datasets of the   *)
(* specification: every record is a mapping from column names to scalars.  *)
(* The statistics are computed here from the sums of the products of the   *)
(* deviations, not by the operators that model the analyzers.              *)
(***************************************************************************)
WellFormed ==
    /\ isArray
    /\ \A i \in 1..Len(data.rows) :
          /\ ~data.rows[i].isNull
          /\ \A key \in {"t", "a", "b"} : data.rows[i].val[key].k # "hostile"

HasDateColumn == getDateColumn(data).found

NumericColumnSet ==
    {getNumericColumns(data).cols[i] : i \in 1..Len(getNumericColumns(data).cols)}

\* the valid (date, value) pairs of a column, in date order
Series(column) == prepareTimeSeriesData(data, getDateColumn(data).col, column).pts

\* the least-squares slope and the coefficient of determination of the
\* values against their positions
LeastSquaresSlope(pts) ==
    RDiv(SumDeviationProducts(IndexSeq(pts), ValueSeq(pts)),
         SumDeviationProducts(IndexSeq(pts), IndexSeq(pts)))

Determination(x, y) ==
    RDiv(RSq(SumDeviationProducts(x, y)),
         RMul(SumDeviationProducts(x, x), SumDeviationProducts(y, y)))

InsightsOf(type, column) ==
    {i \in 1..Len(insights) : insights[i].type = type /\ insights[i].column = column}

TrendHolds(column, slope) ==
    /\ InsightsOf("trend", column) # {} <=> RGreater(RAbs(slope), Rat(1, 100))
    /\ \A i \in InsightsOf("trend", column) :
          insights[i].direction = IF RGreater(slope, RInt(0)) THEN "Upward" ELSE "Downward"

\* C6: in a dataset with a date column, a numeric column with at least 3
\* valid (date, value) pairs has a trend insight exactly when the absolute
\* least-squares slope of its values against their positions exceeds 0.01,
\* and the direction is "Upward" when the slope is positive, "Downward"
\* otherwise
C6_TrendIffSlopeSignificant ==
    Done /\ WellFormed /\ HasDateColumn
        => \A column \in NumericColumnSet :
              Len(Series(column)) >= 3
                  => \E slope \in {LeastSquaresSlope(Series(column))} :
                        TrendHolds(column, slope)

\* C6 witness: one column has a downward trend and another, with three
\* pairs or more and a nonzero slope, has none
C6_Witness ==
    /\ Done /\ WellFormed /\ HasDateColumn
    /\ \E i \in 1..Len(insights) :
          insights[i].type = "trend" /\ insights[i].direction = "Downward"
    /\ \E column \in NumericColumnSet :
          /\ Len(Series(column)) >= 3
          /\ LeastSquaresSlope(Series(column)).n # 0
          /\ InsightsOf("trend", column) = {}

\* the values of a column in the rows where both columns parse
PairedValues(column, other) ==
    LET both(i) == /\ ~isNaN(parseFloat(data.rows[i].val[column]))
                   /\ ~isNaN(parseFloat(data.rows[i].val[other]))
        rows == SelectSeq([i \in 1..Len(data.rows) |-> i], both)
    IN [k \in 1..Len(rows) |-> parseFloat(data.rows[rows[k]].val[column])]

CorrelationsOf(col1, col2) ==
    {i \in 1..Len(insights) :
        /\ insights[i].type = "correlation"
        /\ <<insights[i].column1, insights[i].column2>> \in {<<col1, col2>>, <<col2, col1>>}}

\* rsq is the square of the coefficient r: |r| > 0.5 is rsq > 1/4,
\* |r| > 0.8 is rsq > 16/25 and |r| * 100 is the root of rsq * 10000
CorrelationHolds(col1, col2, rsq) ==
    /\ Cardinality(CorrelationsOf(col1, col2)) <= 1
    /\ CorrelationsOf(col1, col2) # {} <=> RGreater(rsq, Rat(1, 4))
    /\ \A i \in CorrelationsOf(col1, col2) :
          /\ insights[i].confidence.sq
          /\ REq(insights[i].confidence.q, RMul(rsq, RInt(10000)))
          /\ insights[i].strength = "strong" <=> RGreater(rsq, Rat(16, 25))

\* C7 as stated: every pair of distinct numeric columns has a correlation
\* insight exactly when the Pearson coefficient r of its rows satisfies
\* |r| > 0.5, at most one, with confidence |r| * 100 and strength "strong"
\* exactly when |r| > 0.8
C7_CorrelationIffAboveHalfAnyPair ==
    Done /\ WellFormed
        => \A col1, col2 \in NumericColumnSet :
              col1 # col2
                  => \E rsq \in {Determination(PairedValues(col1, col2),
                                               PairedValues(col2, col1))} :
                        CorrelationHolds(col1, col2, rsq)

\* C7: a pair of distinct numeric columns whose lists of parsable values,
\* each column filtered on its own, have the same length of 3 or more has
\* a correlation insight exactly when the Pearson coefficient r of the two
\* lists paired by position satisfies |r| > 0.5, at most one, with
\* confidence |r| * 100 and strength "strong" exactly when |r| > 0.8; any
\* other pair has none
C7_CorrelationIffAboveHalf ==
    Done /\ WellFormed
        => \A col1, col2 \in NumericColumnSet :
              col1 # col2
                  => \E x \in {ColumnValues(data, col1).vals},
                        y \in {ColumnValues(data, col2).vals} :
                        IF Len(x) = Len(y) /\ Len(x) >= 3
                        THEN \E rsq \in {Determination(x, y)} :
                                CorrelationHolds(col1, col2, rsq)
                        ELSE CorrelationsOf(col1, col2) = {}

\* C7 witness: a strong and a moderate correlation of equally long lists
\* of 3 values or more, one of them negative
C7_Witness ==
    /\ Done /\ WellFormed
    /\ \E i, j \in 1..Len(insights) :
          /\ insights[i].type = "correlation" /\ insights[i].strength = "strong"
          /\ insights[j].type = "correlation" /\ insights[j].strength = "moderate"
          /\ "negative" \in {insights[i].direction, insights[j].direction}

\* the rows of a column whose value parses, in dataset order, and the
\* integers stored in them (a stored v is the number v / Unit)
ValidRows(column) ==
    LET parses(i) == ~isNaN(parseFloat(data.rows[i].val[column]))
    IN SelectSeq([i \in 1..Len(data.rows) |-> i], parses)

StoredValues(column) ==
    [k \in 1..Len(ValidRows(column)) |-> data.rows[ValidRows(column)[k]].val[column].v]

\* the sum of the first k of a sequence of integers
RECURSIVE IntSumTo(_, _)
IntSumTo(s, k) == IF k = 0 THEN 0 ELSE IntSumTo(s, k - 1) + s[k]

\* n * v - sum is n * Unit times the deviation of v / Unit from the mean
ScaledDeviation(stored, v) == Len(stored) * v - IntSumTo(stored, Len(stored))

SumSquaredDeviations(stored) ==
    CHOOSE r \in {IntSumTo([k \in 1..Len(stored) |->
                               (Len(stored) * stored[k] - total)
                                   * (Len(stored) * stored[k] - total)],
                           Len(stored)) :
                     total \in {IntSumTo(stored, Len(stored))}} : TRUE

\* |value - mean| > 2 * stdDev, squared and multiplied by n^3 * Unit^2,
\* given the sum of the values and of their squared scaled deviations
FarFromMean(n, total, squares, v) ==
    n * (n * v - total) * (n * v - total) > 4 * squares

RowsFarFromMean(column, n, total, squares) ==
    LET far(i) == /\ ~isNaN(parseFloat(data.rows[i].val[column]))
                  /\ FarFromMean(n, total, squares, data.rows[i].val[column].v)
    IN SelectSeq([i \in 1..Len(data.rows) |-> i], far)

ExpectedAnomalies(column, stored) ==
    CHOOSE r \in {RowsFarFromMean(column, Len(stored), total, squares) :
                     total \in {IntSumTo(stored, Len(stored))},
                     squares \in {SumSquaredDeviations(stored)}} : TRUE

AnomalyHolds(column, stored, expected) ==
    /\ InsightsOf("anomaly", column) # {} <=> expected # <<>>
    /\ \A i \in InsightsOf("anomaly", column) :
          /\ insights[i].anomalies = expected
          /\ REq(insights[i].mean,
                 Rat(IntSumTo(stored, Len(stored)), Len(stored) * Unit))
          /\ REq(insights[i].thresholdSq,
                 Rat(4 * SumSquaredDeviations(stored),
                     Len(stored) * Len(stored) * Len(stored) * Unit * Unit))

\* C8: for a numeric column with at least 10 parsable values, the anomaly
\* insight lists, in dataset order, exactly the rows whose value parses
\* and lies farther than 2 standard deviations from the mean of the
\* parsable values; there is an insight only when there is such a row, and
\* it carries that mean and that threshold
C8_AnomaliesAreTheFarRows ==
    Done /\ WellFormed
        => \A column \in NumericColumnSet :
              \E stored \in {StoredValues(column)} :
                 Len(stored) >= 10
                     => \E expected \in {ExpectedAnomalies(column, stored)} :
                           AnomalyHolds(column, stored, expected)

\* C8 witness: a column with two anomalous rows listed, another column of
\* 10 values or more with none, and a row whose value does not parse
C8_Witness ==
    /\ Done /\ WellFormed
    /\ \E i \in 1..Len(insights) :
          insights[i].type = "anomaly" /\ Len(insights[i].anomalies) >= 2
    /\ \E column \in NumericColumnSet :
          /\ Len(ValidRows(column)) >= 10
          /\ Len(ValidRows(column)) < Len(data.rows)
    /\ \E column \in NumericColumnSet :
          Len(ValidRows(column)) >= 10 /\ InsightsOf("anomaly", column) = {}

PredictionHolds(column, rsq) ==
    /\ InsightsOf("prediction", column) # {} <=> RGreater(rsq, Rat(3, 10))
    /\ \A i \in InsightsOf("prediction", column) :
          /\ ~insights[i].confidence.sq
          /\ REq(insights[i].confidence.q, RMin(RMul(rsq, RInt(100)), RInt(85)))

\* C9: in a dataset with a date column, a numeric column with at least 5
\* valid (date, value) pairs has a prediction insight exactly when the
\* R squared of the fit of its values against their positions exceeds 0.3,
\* whatever the slope, and the confidence is min(R squared * 100, 85)
C9_PredictionIffFitReasonable ==
    Done /\ WellFormed /\ HasDateColumn
        => \A column \in NumericColumnSet :
              \E pts \in {Series(column)} :
                 Len(pts) >= 5
                     => \E rsq \in {Determination(IndexSeq(pts), ValueSeq(pts))} :
                           PredictionHolds(column, rsq)

\* C9 witness: a column has a prediction at a confidence below the cap and
\* no trend, its slope being within 0.01 of 0, and another column with 5
\* pairs or more has no prediction
C9_Witness ==
    /\ Done /\ WellFormed /\ HasDateColumn
    /\ \E i \in 1..Len(insights) :
          /\ insights[i].type = "prediction"
          /\ RLess(insights[i].confidence.q, RInt(85))
          /\ InsightsOf("trend", insights[i].column) = {}
    /\ \E column \in NumericColumnSet :
          Len(Series(column)) >= 5 /\ InsightsOf("prediction", column) = {}

LoggedColumns == {innerLog[i] : i \in 1..Len(innerLog)}

\* a column below a gate has no insight of the gated type and no error
SkippedSilently(column, pairs) ==
    /\ pairs < 3 => InsightsOf("trend", column) = {}
    /\ pairs < 5 => InsightsOf("prediction", column) = {}
    /\ pairs < 5 => <<column>> \notin LoggedColumns /\ ~outerLog

\* a column at or above the gate of the trends is analysed
StillAnalysed(column, pts) ==
    Len(pts) >= 3 /\ RGreater(RAbs(LeastSquaresSlope(pts)), Rat(1, 100))
        => InsightsOf("trend", column) # {}

\* C10: a numeric column with fewer than 3 valid (date, value) pairs has
\* no trend insight and one with fewer than 5 has no prediction insight;
\* the column is skipped without an error and the other columns are still
\* analysed; a dataset without a date column has no trend and no
\* prediction insight
C10_MinimumSamples ==
    Done /\ WellFormed
        => IF HasDateColumn
           THEN \A column \in NumericColumnSet :
                   \E pts \in {Series(column)} :
                      /\ SkippedSilently(column, Len(pts))
                      /\ StillAnalysed(column, pts)
           ELSE \A i \in 1..Len(insights) :
                   insights[i].type \notin {"trend", "prediction"}

\* C10 witness: a column with 2 valid pairs is skipped while another
\* column of the same dataset has a trend insight
C10_Witness ==
    /\ Done /\ WellFormed /\ HasDateColumn
    /\ \E column, other \in NumericColumnSet :
          /\ Len(Series(column)) = 2
          /\ InsightsOf("trend", column) = {}
          /\ InsightsOf("trend", other) # {}
          /\ InsightsOf("prediction", other) = {}

\* C11: a numeric column with fewer than 10 parsable values has no anomaly
\* insight, whatever its values, and is skipped without an error
C11_FewValuesNoAnomaly ==
    Done /\ WellFormed
        => \A column \in NumericColumnSet :
              Len(ValidRows(column)) < 10
                  => /\ InsightsOf("anomaly", column) = {}
                     /\ <<column>> \notin LoggedColumns

\* C11 witness: a column of exactly 9 parsable values, one of them farther
\* than 2 standard deviations from their mean, has no anomaly insight
\* while another column of the same dataset has one
C11_Witness ==
    /\ Done /\ WellFormed
    /\ \E column, other \in NumericColumnSet :
          /\ Len(ValidRows(column)) = 9
          /\ ExpectedAnomalies(column, StoredValues(column)) # <<>>
          /\ InsightsOf("anomaly", column) = {}
          /\ InsightsOf("anomaly", other) # {}

SegmentInsights == {i \in 1..Len(insights) : insights[i].type = "segment"}

\* C12: performSegmentation emits no insight when the dataset has fewer
\* than 2 numeric columns or fewer than 10 records; otherwise it emits
\* exactly one segment insight, whose confidence is 75 and whose columns
\* are the first two numeric columns in the order of the keys
C12_OneSegmentInsight ==
    Done /\ WellFormed
        => \E cols \in {getNumericColumns(data).cols} :
              IF Len(cols) < 2 \/ Len(data.rows) < 10
              THEN SegmentInsights = {}
              ELSE /\ Cardinality(SegmentInsights) = 1
                   /\ \A i \in SegmentInsights :
                         /\ insights[i].confidence = Plain(RInt(75))
                         /\ insights[i].columns = <<cols[1], cols[2]>>

\* C12 witness: a dataset of 10 records or more with three numeric
\* columns has one segment insight, on the first two, found with more
\* than one cluster
C12_Witness ==
    /\ Done /\ WellFormed
    /\ Len(getNumericColumns(data).cols) = 3
    /\ \E i \in SegmentInsights :
          /\ insights[i].columns = <<"t", "a">>
          /\ insights[i].k > 1

FirstRecordNumeric(key) == data.rows[1].val[key].k = "num"

\* the insight is about the column
Mentions(x, key) ==
    CASE x.type = "correlation" -> key \in {x.column1, x.column2}
      [] x.type = "segment" -> key \in {x.columns[1], x.columns[2]}
      [] OTHER -> x.column = key

\* the keys whose value in the first record is a finite number, in order
FirstRecordNumericKeys ==
    SelectSeq(data.keys, FirstRecordNumeric)

\* C15: the first record alone classifies the columns.  No insight of any
\* analyzer is about a column whose first value is not a finite number,
\* whatever the later records hold; a column whose first value is a finite
\* number is analysed whatever the later records hold: its valid pairs
\* give a trend when their slope is significant, and the first two such
\* columns are the columns of the segment insight
C15_FirstRecordClassifies ==
    Done /\ WellFormed /\ Len(data.rows) > 0
        => /\ \A i \in 1..Len(insights) :
                 \A key \in {"t", "a", "b"} :
                    Mentions(insights[i], key) => FirstRecordNumeric(key)
           /\ \A key \in {"t", "a", "b"} :
                 FirstRecordNumeric(key) /\ HasDateColumn
                     => StillAnalysed(key, Series(key))
           /\ \A i \in SegmentInsights :
                 insights[i].columns = SubSeq(FirstRecordNumericKeys, 1, 2)

\* C15 witness: a column whose first value is text and whose later values
\* are numbers that differ has no insight, while a column whose first
\* value is a number and whose second is text has a trend
C15_Witness ==
    /\ Done /\ WellFormed /\ Len(data.rows) > 3
    /\ \E key, other \in {"t", "a", "b"} :
          /\ ~FirstRecordNumeric(key)
          /\ \A i \in 2..Len(data.rows) : data.rows[i].val[key].k = "num"
          /\ \E i, j \in 2..Len(data.rows) : data.rows[i].val[key] # data.rows[j].val[key]
          /\ \A i \in 1..Len(insights) : ~Mentions(insights[i], key)
          /\ FirstRecordNumeric(other)
          /\ data.rows[2].val[other].k = "text"
          /\ InsightsOf("trend", other) # {}

\* the pairs of distinct numeric columns whose coefficient is computed
ComputedPairs ==
    {pair \in NumericColumnSet \X NumericColumnSet :
        /\ pair[1] # pair[2]
        /\ Len(ValidRows(pair[1])) = Len(ValidRows(pair[2]))
        /\ Len(ValidRows(pair[1])) >= 3}

\* C16: the coefficient of a pair of columns is computed over the records
\* in which both values parse: the k-th values of the two lists it is
\* computed from come from the same record, and the coefficient of a
\* correlation insight is the one of the values paired record by record
C16_PairsComeFromOneRecord ==
    Done /\ WellFormed
        => /\ \A pair \in ComputedPairs : ValidRows(pair[1]) = ValidRows(pair[2])
           /\ \A i \in 1..Len(insights) :
                 insights[i].type = "correlation"
                     => REq(insights[i].correlation.rsq,
                            Determination(
                                PairedValues(insights[i].column1, insights[i].column2),
                                PairedValues(insights[i].column2, insights[i].column1)))

\* the pairs of numeric columns in the order of the loops
LoopPairs == ColumnPairs(getNumericColumns(data).cols)

\* the lists of parsable values of the pair differ in length or have
\* fewer than 3 values
PairIsSkipped(pair) ==
    \/ Len(ValidRows(pair[1])) # Len(ValidRows(pair[2]))
    \/ Len(ValidRows(pair[1])) < 3

\* C17: a pair of columns whose lists of parsable values differ in length
\* or have fewer than 3 values gives no correlation insight and no error,
\* and the pairs that are not skipped are still processed: one whose
\* coefficient r has |r| > 0.5 has its insight
C17_SkippedPairs ==
    Done /\ WellFormed
        => \A k \in 1..Len(LoopPairs) :
              IF PairIsSkipped(LoopPairs[k])
              THEN /\ CorrelationsOf(LoopPairs[k][1], LoopPairs[k][2]) = {}
                   /\ LoopPairs[k] \notin LoggedColumns
                   /\ ~outerLog
              ELSE RGreater(Determination(ColumnValues(data, LoopPairs[k][1]).vals,
                                          ColumnValues(data, LoopPairs[k][2]).vals),
                            Rat(1, 4))
                       => CorrelationsOf(LoopPairs[k][1], LoopPairs[k][2]) # {}

\* C17 witness: the first pair of the loops is skipped because the lengths
\* differ, the second has a correlation insight, and a third is skipped
C17_Witness ==
    /\ Done /\ WellFormed
    /\ Len(LoopPairs) = 3
    /\ Len(ValidRows(LoopPairs[1][1])) # Len(ValidRows(LoopPairs[1][2]))
    /\ Len(ValidRows(LoopPairs[1][2])) >= 3
    /\ CorrelationsOf(LoopPairs[2][1], LoopPairs[2][2]) # {}
    /\ PairIsSkipped(LoopPairs[3])

\* the points kmeans gave the cluster index c, counted from the indices
\* it returned, which the entries of data.segments carry as their points
AssignedTo(segments, c) ==
    Cardinality({j \in 1..Len(segments) : segments[j].points = c})

\* C18: the segment insight summarises exactly k segments: data.segments
\* has k entries with ids 1..k, the size of each is the number of points
\* assigned to its cluster, and the sizes sum to the number of points
\* clustered
C18_SegmentsSummariseClusters ==
    Done /\ WellFormed
        => \A i \in SegmentInsights :
              \E segments \in {insights[i].segments} :
                 /\ Len(segments) = insights[i].k
                 /\ \A c \in 1..Len(segments) :
                       /\ segments[c].id = c
                       /\ segments[c].size.defined
                       /\ segments[c].size.v = AssignedTo(segments, c - 1)
                 /\ RSum([c \in 1..Len(segments) |-> RInt(segments[c].size.v)]).n
                        = Len(kmeansCalls[1].points)

\* the coordinate a cell contributes: its number, or 0 when it is not one
Coordinate(cell) == IF cell.k = "num" THEN Rat(cell.v, Unit) ELSE RInt(0)

\* C19: every record contributes exactly one 2-D point to the clustering:
\* kmeans is given as many points as there are records, and the i-th point
\* holds the values of the i-th record in the two feature columns, a value
\* that is not a number replaced by 0
C19_OnePointPerRecord ==
    Done /\ WellFormed
        => /\ SegmentInsights # {} <=> kmeansCalls # <<>>
           /\ \A c \in 1..Len(kmeansCalls) :
                 \E points \in {kmeansCalls[c].points}, cols \in {FirstRecordNumericKeys} :
                    /\ Len(points) = Len(data.rows)
                    /\ \A i \in 1..Len(points) :
                          points[i] = <<Coordinate(data.rows[i].val[cols[1]]),
                                        Coordinate(data.rows[i].val[cols[2]])>>

\* C19 witness: a record whose value in the first feature column is text
\* gives the point with 0 there and its own nonzero value in the other
\* column, among as many points as records
C19_Witness ==
    /\ Done /\ WellFormed
    /\ Len(kmeansCalls) = 1
    /\ Len(kmeansCalls[1].points) = Len(data.rows)
    /\ \E i \in 1..Len(data.rows) :
          /\ data.rows[i].val[FirstRecordNumericKeys[1]].k = "text"
          /\ kmeansCalls[1].points[i][1] = RInt(0)
          /\ kmeansCalls[1].points[i][2] # RInt(0)

\* how many times a sequence holds an element
Occurrences(seq, x) == Cardinality({i \in 1..Len(seq) : seq[i] = x})

\* C21: when no analyzer fails, what generateInsights returns is a
\* permutation of the insights the five analyzers pushed: as long, and
\* holding every insight as many times
C21_ResultIsPermutation ==
    Done /\ isArray /\ Len(data.rows) > 0 /\ ~outerLog
        => /\ Len(result) = Len(insights)
           /\ \A i \in 1..Len(insights) :
                 Occurrences(result, insights[i]) = Occurrences(insights, insights[i])
           /\ \A i \in 1..Len(result) :
                 Occurrences(insights, result[i]) = Occurrences(result, result[i])

\* C21 witness: the five analyzers each pushed an insight, and the
\* insights are returned in another order than they were pushed in
C21_Witness ==
    /\ Done /\ ~outerLog
    /\ {insights[i].type : i \in 1..Len(insights)}
           = {"trend", "correlation", "anomaly", "segment", "prediction"}
    /\ Len(result) = Len(insights)
    /\ result # insights

\* the values of a time series differ by d from each point to the next
ConstantStep(pts, d) ==
    \A i \in 1..(Len(pts) - 1) : REq(RSub(pts[i + 1].value, pts[i].value), d)

LinearTrendHolds(column, d) ==
    /\ Cardinality(InsightsOf("trend", column)) = 1
    /\ \A i \in InsightsOf("trend", column) :
          /\ REq(insights[i].slope, d)
          /\ REq(insights[i].rSquared, RInt(1))
          /\ insights[i].direction = IF RGreater(d, RInt(0)) THEN "Upward" ELSE "Downward"
          /\ CEq(insights[i].confidence, Plain(RInt(95)))
    /\ NumericColumnSet = {column}
           => Cardinality({i \in 1..Len(insights) : insights[i].type = "trend"}) = 1

\* C22: in a dataset with a date column, a numeric column whose 3 or more
\* values in date order grow by a constant step d with |d| > 0.01 has
\* exactly one trend insight, with slope d, R squared 1, direction "Upward"
\* when d > 0 and confidence 95; when it is the only numeric column, this
\* is the only trend insight
C22_LinearSeriesTrend ==
    Done /\ WellFormed /\ HasDateColumn
        => \A column \in NumericColumnSet :
              \A pts \in {Series(column)} :
                  Len(pts) >= 3
                      => \A d \in {RSub(pts[2].value, pts[1].value)} :
                            ConstantStep(pts, d) /\ RGreater(RAbs(d), Rat(1, 100))
                                => LinearTrendHolds(column, d)

\* C22 witness: the only numeric column grows by a constant step in a
\* dataset of five records, and has the upward trend insight
C22_Witness ==
    /\ Done /\ WellFormed /\ HasDateColumn
    /\ Len(data.rows) = 5
    /\ \E column \in NumericColumnSet :
          /\ NumericColumnSet = {column}
          /\ \E d \in {RSub(Series(column)[2].value, Series(column)[1].value)} :
                /\ ConstantStep(Series(column), d)
                /\ RGreater(d, Rat(1, 100))
                /\ \E i \in InsightsOf("trend", column) :
                      insights[i].direction = "Upward" /\ REq(insights[i].slope, d)

\* (count / total) * 500, as a rational
AnomalyShare(count, total) == RDiv(RInt(500 * count), RInt(total))

\* the confidence is the share, or 90 when the share exceeds 90
IsCappedShare(confidence, share) ==
    /\ ~confidence.sq
    /\ \/ ~RGreater(share, RInt(90)) /\ REq(confidence.q, share)
       \/ RGreater(share, RInt(90)) /\ REq(confidence.q, RInt(90))

\* C23: the confidence of every anomaly insight is
\* min((anomalyCount / totalValidCount) * 500, 90), anomalyCount the number
\* of rows the insight lists and totalValidCount the number of values of
\* the column that parse
C23_AnomalyConfidence ==
    Done /\ isArray
        => \A i \in 1..Len(insights) :
              insights[i].type = "anomaly"
                  => \E share \in {AnomalyShare(Len(insights[i].anomalies),
                                                Len(ValidRows(insights[i].column)))} :
                        IsCappedShare(insights[i].confidence, share)

\* C23 witness: one anomaly insight is about a column with a value that
\* does not parse and has a confidence below the cap, another has the
\* confidence 90 because its share exceeds 90
C23_Witness ==
    /\ Done /\ isArray
    /\ \E i \in 1..Len(insights) :
          /\ insights[i].type = "anomaly"
          /\ Len(ValidRows(insights[i].column)) < Len(data.rows)
          /\ RLess(insights[i].confidence.q, RInt(90))
    /\ \E i \in 1..Len(insights) :
          /\ insights[i].type = "anomaly"
          /\ RGreater(AnomalyShare(Len(insights[i].anomalies),
                                   Len(ValidRows(insights[i].column))), RInt(90))
          /\ REq(insights[i].confidence.q, RInt(90))

\* the dates of the records
RowDates ==
    LET dateColumn == getDateColumn(data).col
    IN [i \in 1..Len(data.rows) |-> DateTime(data.rows[i].val[dateColumn]).t]

\* the rows whose date and value both parse
RowsOfSeries(dates, column) ==
    LET parses(i) == /\ ~isNaN(dates[i])
                     /\ ~isNaN(parseFloat(data.rows[i].val[column]))
    IN SelectSeq([i \in 1..Len(data.rows) |-> i], parses)

\* the place of a row in date order, rows of one date in dataset order
PlaceInSeries(dates, rows, r) ==
    1 + Cardinality({k \in 1..Len(rows) :
                        \/ RLess(dates[rows[k]], dates[r])
                        \/ REq(dates[rows[k]], dates[r]) /\ rows[k] < r})

SeriesHolds(dates, column, rows, pts) ==
    /\ Len(pts) = Len(rows)
    /\ \A k \in 1..Len(rows) :
          pts[PlaceInSeries(dates, rows, rows[k])]
              = [date |-> dates[rows[k]],
                 value |-> parseFloat(data.rows[rows[k]].val[column])]

\* the least-squares slope of the values against the positions 0, 1, 2, ...
SlopeAgainstPositions(pts) ==
    LET x == [i \in 1..Len(pts) |-> RInt(i - 1)]
        y == [i \in 1..Len(pts) |-> pts[i].value]
    IN RDiv(SumDeviationProducts(x, y), SumDeviationProducts(x, x))

SeriesAndPositionsHold(dates, column, pts) ==
    /\ \E rows \in {RowsOfSeries(dates, column)} : SeriesHolds(dates, column, rows, pts)
    /\ \A i \in InsightsOf("trend", column) :
          /\ insights[i].timeSeriesData = pts
          /\ REq(insights[i].slope, SlopeAgainstPositions(pts))

\* the records with two neighbours exchanged
Exchanged(rows, i) ==
    [k \in 1..Len(rows) |-> IF k = i THEN rows[i + 1] ELSE IF k = i + 1 THEN rows[i] ELSE rows[k]]

SameTrend(found, ins) ==
    /\ Len(ins) = Cardinality(found)
    /\ \A i \in found :
          /\ REq(insights[i].slope, ins[1].slope)
          /\ REq(insights[i].rSquared, ins[1].rSquared)
          /\ insights[i].direction = ins[1].direction

\* the trend of the column is the one of the dataset with any two
\* neighbouring records other than the first exchanged; every order of
\* these records is reached by such exchanges
OrderIsIrrelevant(column) ==
    \A i \in 2..(Len(data.rows) - 1) :
        SameTrend(InsightsOf("trend", column),
                  TrendOfColumn([data EXCEPT !.rows = Exchanged(data.rows, i)],
                                getDateColumn(data).col, column).ins)

\* the time series of the column is the one of the dataset with any two
\* neighbouring records other than the first exchanged; calculateTrend is
\* given the series and nothing else
SeriesIgnoresOrder(column, pts) ==
    \A i \in 2..(Len(data.rows) - 1) :
        prepareTimeSeriesData([data EXCEPT !.rows = Exchanged(data.rows, i)],
                              getDateColumn(data).col, column).pts = pts

DatesDiffer(dates) ==
    \A i, j \in 1..Len(dates) : i # j /\ ~isNaN(dates[i]) => ~REq(dates[i], dates[j])

DatesAreDistinct == DatesDiffer(RowDates)

\* C24 as stated: the time series of a (date column, numeric column) pair
\* holds exactly the records whose date and value both parse, in ascending
\* date order, records of one date in dataset order; the regression runs
\* against the positions 0, 1, 2, ... in the series; and the rows in any
\* other order with the same first record give the same trend
C24_AnyOrderSameTrend ==
    Done /\ WellFormed /\ HasDateColumn
        => \E dates \in {RowDates} :
              \A column \in NumericColumnSet :
                  /\ SeriesAndPositionsHold(dates, column, Series(column))
                  /\ OrderIsIrrelevant(column)

\* C24: the same, the rows in another order giving the same time series,
\* and so the same trend, when no two records have the same date
C24_SeriesInDateOrder ==
    Done /\ WellFormed /\ HasDateColumn
        => \E dates \in {RowDates} :
              \A column \in NumericColumnSet :
                  \E pts \in {Series(column)} :
                     /\ SeriesAndPositionsHold(dates, column, pts)
                     /\ DatesDiffer(dates) => SeriesIgnoresOrder(column, pts)

\* C24 witness: descending dates with one that does not parse, so that the
\* series is in another order than the rows and the dates are unevenly
\* spaced, and a trend insight
C24_Witness ==
    /\ Done /\ WellFormed /\ HasDateColumn /\ DatesAreDistinct
    /\ \E column \in NumericColumnSet :
          /\ InsightsOf("trend", column) # {}
          /\ Len(Series(column)) < Len(data.rows)
          /\ Len(Series(column)) >= 3
          /\ \E i, j \in 1..Len(data.rows) :
                i < j /\ RLess(RowDates[j], RowDates[i])

\* the least-squares intercept of the values against the positions:
\* the mean of the values less the slope times the mean of the positions
InterceptAgainstPositions(pts) ==
    LET n == Len(pts)
        y == [i \in 1..n |-> pts[i].value]
    IN RSub(RDiv(RSum(y), RInt(n)),
            RMul(SlopeAgainstPositions(pts), Rat(n - 1, 2)))

PredictionIsNextValue(i, pts, slope, intercept) ==
    /\ REq(insights[i].slope, slope)
    /\ REq(insights[i].intercept, intercept)
    /\ REq(insights[i].prediction, RAdd(RMul(slope, RInt(Len(pts))), intercept))
    /\ \A j \in InsightsOf("trend", insights[i].column) :
          REq(insights[j].slope, insights[i].slope)

\* C25: the value of a prediction insight is slope * n + intercept, n the
\* number of valid (date, value) points of the column, slope and intercept
\* those of the least-squares line of the values against the positions
\* 0..n-1, the slope being that of the trend insight of the column
C25_PredictionIsNextValue ==
    Done /\ WellFormed /\ HasDateColumn
        => \A i \in 1..Len(insights) :
              insights[i].type = "prediction"
                  => \E pts \in {Series(insights[i].column)} :
                        \E slope \in {SlopeAgainstPositions(pts)},
                           intercept \in {InterceptAgainstPositions(pts)} :
                              PredictionIsNextValue(i, pts, slope, intercept)

\* C25 witness: a prediction for a column with fewer valid points than the
\* dataset has records, a nonzero intercept, and a trend insight
C25_Witness ==
    /\ Done /\ WellFormed /\ HasDateColumn
    /\ \E i \in 1..Len(insights) :
          /\ insights[i].type = "prediction"
          /\ Len(Series(insights[i].column)) < Len(data.rows)
          /\ ~REq(insights[i].intercept, RInt(0))
          /\ ~REq(insights[i].prediction, RInt(0))
          /\ InsightsOf("trend", insights[i].column) # {}

\* C26: every segment insight has k = 3: kmeans is given 10 points or
\* more and k = 3, and a dataset that passes the test of 2 numeric columns
\* and 10 records is never skipped for having fewer than 6 points
C26_AlwaysThreeClusters ==
    Done /\ WellFormed
        => /\ \A i \in SegmentInsights : insights[i].k = 3
           /\ \A c \in 1..Len(kmeansCalls) :
                 kmeansCalls[c].k = 3 /\ Len(kmeansCalls[c].points) >= 10
           /\ Len(getNumericColumns(data).cols) >= 2 /\ Len(data.rows) >= 10
                  => kmeansCalls # <<>> /\ SegmentInsights # {}

\* C26 witness: a segment insight with k = 3 for a dataset of exactly 10
\* records, one of which has text in a feature column
C26_Witness ==
    /\ Done /\ WellFormed
    /\ Len(data.rows) = 10
    /\ \E i \in SegmentInsights :
          /\ insights[i].k = 3
          /\ \E r \in 1..Len(data.rows) :
                data.rows[r].val[insights[i].columns[1]].k = "text"

\* C27: the column chosen as the date column is not one of the numeric
\* columns, so that no trend insight is about the date column itself
C27_DateColumnIsNotNumeric ==
    isArray /\ WellFormed /\ HasDateColumn
        => /\ getDateColumn(data).col \notin NumericColumnSet
           /\ \A i \in 1..Len(insights) :
                 insights[i].type = "trend" => insights[i].column # getDateColumn(data).col

(***************************************************************************)
(* Properties of a session.                                                *)
(***************************************************************************)
\* the insights returned other than the segment insight, in the order
\* they are returned in
NonClustering(returned) ==
    LET other(x) == x.type # "segment"
    IN SelectSeq(returned, other)

ReturnedCalls ==
    {[data |-> history[i].data, result |-> history[i].result] : i \in 1..Len(history)}
    \cup {[data |-> given, result |-> result]}

\* the insights of a type that a call returned for a column
ReturnedFor(call, type, column) ==
    {i \in 1..Len(call.result) :
        call.result[i].type = type /\ call.result[i].column = column}

\* a call on a dataset with a date column returned, for a numeric column
\* of the dataset, a trend insight or none and a prediction insight or
\* none, as asked
OutcomeIsReached(trend, prediction) ==
    \E call \in ReturnedCalls :
       \E i \in 1..Len(getNumericColumns(call.data).cols) :
          \E column \in {getNumericColumns(call.data).cols[i]} :
             /\ ~getDateColumn(call.data).threw /\ getDateColumn(call.data).found
             /\ trend <=> ReturnedFor(call, "trend", column) # {}
             /\ prediction <=> ReturnedFor(call, "prediction", column) # {}
             /\ \A k \in ReturnedFor(call, "prediction", column) :
                   /\ RGreater(call.result[k].rSquared, Rat(3, 10))
                   /\ ~trend => ~RGreater(RAbs(call.result[k].slope), Rat(1, 100))

\* C20: the trend and the prediction of a column pass separate gates: the
\* column has a trend insight exactly when it has 3 valid pairs or more
\* and the absolute slope exceeds 0.01, whatever R squared is, and a
\* prediction insight exactly when the dataset has 5 records or more, the
\* column 5 valid pairs or more and R squared exceeds 0.3, whatever the
\* slope is
C20_GatesAreIndependent ==
    Done /\ WellFormed /\ HasDateColumn
        => \A column \in NumericColumnSet :
              \E pts \in {Series(column)} :
                 /\ InsightsOf("trend", column) # {}
                       <=> /\ Len(pts) >= 3
                           /\ RGreater(RAbs(LeastSquaresSlope(pts)), Rat(1, 100))
                 /\ InsightsOf("prediction", column) # {}
                       <=> /\ Len(data.rows) >= 5 /\ Len(pts) >= 5
                           /\ RGreater(Determination(IndexSeq(pts), ValueSeq(pts)),
                                       Rat(3, 10))

\* C20 witness: the calls of one session have returned all four outcomes
\* for a column: a trend and a prediction, a trend only, a prediction only
\* (R squared above 0.3 with an absolute slope of at most 0.01), neither
C20_Witness ==
    /\ Done
    /\ OutcomeIsReached(TRUE, TRUE)
    /\ OutcomeIsReached(TRUE, FALSE)
    /\ OutcomeIsReached(FALSE, TRUE)
    /\ OutcomeIsReached(FALSE, FALSE)

(***************************************************************************)
(* Properties of the automation manager.                                   *)
(***************************************************************************)
\* the rules created so far have ids that differ from one another
IdsDiffer == \A i, j \in 1..Len(heap) : i # j => heap[i].id # heap[j].id

\* C28: every key of the timers map is the id of a rule that is in the
\* rules map, enabled and triggered by a schedule; no timeout is armed for
\* a rule that deleteRule removed, and no such rule is executed.  It is
\* stated for the runs in which every rule got an id of its own
C28_TimersBelongToLiveRules ==
    IdsDiffer
        => /\ \A id \in DOMAIN timers :
                 /\ id \in DOMAIN rules
                 /\ heap[rules[id]].enabled
                 /\ heap[rules[id]].trigger = "schedule"
           /\ \A id \in DOMAIN timers : timers[id].armed => timers[id].rule \notin deleted
           /\ \A r \in 1..Len(runs) : ~runs[r].afterDelete

\* C29: createAutomationRule never overwrites a rule: the ids returnedIds
\* differ from one another, and with no deletion and no creation in
\* progress the rules map holds as many rules as were created
C29_CreationsNeverOverwrite ==
    /\ \A i, j \in 1..Len(returnedIds) : i # j => returnedIds[i] # returnedIds[j]
    /\ deleted = {} /\ creating = <<>> => Cardinality(DOMAIN rules) = Len(returnedIds)

\* C30: the notification of success of an execution is shown only when
\* its action has completed without an error; when the action has thrown,
\* the error is shown, the notification of success is not, and lastRun is
\* as it was before the execution
C30_SuccessOnlyAfterCompletion ==
    \A r \in 1..Len(runs) :
        /\ runs[r].success => runs[r].stage = "done"
        /\ runs[r].stage = "failed"
               => /\ runs[r].error
                  /\ ~runs[r].success
                  /\ heap[runs[r].rule].lastRun = runs[r].lastRunBefore

====
